---- MODULE Spec2Model ----
(***************************************************************************)
(* Profilia: the profile-creation wizard (NewProfile), its file picker and *)
(* mismatch modal, the KPI resolver / CAGR calculator of the report script *)
(* and of the result page, the list of profiles with its polling           *)
(* (ProfilesList) and the session of AuthProvider.                         *)
(*                                                                         *)
(* JavaScript values are tagged records, strings are sequences of          *)
(* one-character strings, so that trim, toLowerCase, includes and the      *)
(* truthiness tests of the code are computed rather than assumed.          *)
(***************************************************************************)
EXTENDS Integers, Sequences, FiniteSets, TLC

VARIABLES
    \* NewProfile component state (useState hooks)
    currentStep, loading, verifying, profileData, uploadedFiles,
    verificationResult, existingProfile, originalCompanyName,
    showMismatchModal, mismatchData, pendingFiles,
    \* FileUpload component state
    files,
    \* requests in flight and timers of the wizard
    verifyCalls, createCall, navPending, mounted,
    \* the handler (and branch) that ran last
    lastHandler,
    \* the profiles POST /api/profiles has created since the wizard was mounted
    profilesCreated,
    \* report script: the loaded data and what the last call rendered
    extractedKPIs, computedRatios, fiscalYears, kpiCall, cagrCell,
    \* report script: the position of window.onload, the content of the page
    \* and the ratios of the last calculateMissingRatios
    onload, dom, ratios,
    \* ProfilesList component state (useState hooks, the interval ref)
    listMounted, profiles, listLoading, searchTerm, debouncedSearchTerm,
    currentPage, totalPages, reprocessLoading, isAutoRefreshEnabled,
    refreshIntervalRef,
    \* ProfilesList: the timers of the page, the requests in flight, the
    \* dependencies the effects last ran with, and whether the list shown
    \* comes from a request older than one already shown
    debounceTimer, intervals, fetchCalls, reprocessCalls, effectDeps,
    shownSuperseded,
    \* AuthProvider state, the default headers of axios, localStorage, the
    \* login requests in flight, what the last login returned and the
    \* function that ran last
    user, token, authLoading, authorization, localStorage, loginCalls,
    loginResult, authHandler

wizardVars == <<currentStep, loading, verifying, profileData, uploadedFiles,
                verificationResult, existingProfile, originalCompanyName,
                showMismatchModal, mismatchData, pendingFiles, files,
                verifyCalls, createCall, navPending, mounted, lastHandler,
                profilesCreated>>

reportVars == <<extractedKPIs, computedRatios, fiscalYears, kpiCall, cagrCell,
                onload, dom, ratios>>

listVars == <<listMounted, profiles, listLoading, searchTerm, debouncedSearchTerm,
              currentPage, totalPages, reprocessLoading, isAutoRefreshEnabled,
              refreshIntervalRef, debounceTimer, intervals, fetchCalls,
              reprocessCalls, effectDeps, shownSuperseded>>

authVars == <<user, token, authLoading, authorization, localStorage, loginCalls,
              loginResult, authHandler>>

vars == <<wizardVars, reportVars, listVars, authVars>>

----------------------------------------------------------------------------
(* JavaScript values *)

Null == [t |-> "null"]
Undefined == [t |-> "undefined"]
NaN == [t |-> "nan"]
False == [t |-> "boolean", b |-> FALSE]
Num(n) == [t |-> "num", n |-> n]
Str(s) == [t |-> "str", s |-> s]
Arr(a) == [t |-> "array", a |-> a]
\* an object: its own properties <<key, value>> in insertion order
Obj(entries) == [t |-> "object", e |-> entries]

IsNum(v) == v.t = "num"

Max(a, b) == IF a >= b THEN a ELSE b
Min(a, b) == IF a <= b THEN a ELSE b
Abs(a) == IF a < 0 THEN -a ELSE a

----------------------------------------------------------------------------
(* Strings: sequences of one-character strings *)

UpperCase == <<"A", "B", "C", "D", "E", "F", "G", "H", "I", "J", "K", "L", "M",
               "N", "O", "P", "Q", "R", "S", "T", "U", "V", "W", "X", "Y", "Z", "É">>
LowerCase == <<"a", "b", "c", "d", "e", "f", "g", "h", "i", "j", "k", "l", "m",
               "n", "o", "p", "q", "r", "s", "t", "u", "v", "w", "x", "y", "z", "é">>

LowerChar(c) ==
    IF \E i \in 1..Len(UpperCase) : UpperCase[i] = c
    THEN LowerCase[CHOOSE i \in 1..Len(UpperCase) : UpperCase[i] = c]
    ELSE c

\* String.prototype.toLowerCase
toLowerCase(s) == [i \in 1..Len(s) |-> LowerChar(s[i])]

IsWhiteSpace(c) == c = " "

\* String.prototype.trim
trim(s) ==
    LET inner == {i \in 1..Len(s) : ~IsWhiteSpace(s[i])}
    IN  IF inner = {} THEN <<>>
        ELSE LET lo == CHOOSE i \in inner : \A j \in inner : i <= j
                 hi == CHOOSE i \in inner : \A j \in inner : j <= i
             IN  SubSeq(s, lo, hi)

\* String.prototype.includes
includes(s, pat) ==
    \E i \in 1..(Len(s) - Len(pat) + 1) : SubSeq(s, i, i + Len(pat) - 1) = pat

\* String.prototype.replace(/_/g, ' ')
replaceUnderscores(s) == [i \in 1..Len(s) |-> IF s[i] = "_" THEN " " ELSE s[i]]

\* ToBoolean for the values that occur
Truthy(v) ==
    CASE v.t = "null" -> FALSE
      [] v.t = "undefined" -> FALSE
      [] v.t = "nan" -> FALSE
      [] v.t = "num" -> v.n # 0
      [] v.t = "str" -> Len(v.s) > 0
      [] OTHER -> TRUE

\* a || b
Or(a, b) == IF Truthy(a) THEN a ELSE b

SeqRange(s) == {s[i] : i \in 1..Len(s)}

RECURSIVE Dedupe(_)
\* [...new Set(array)]: first occurrences, in order, compared by value
Dedupe(s) ==
    IF s = <<>> THEN <<>>
    ELSE LET front == Dedupe(SubSeq(s, 1, Len(s) - 1))
             last == s[Len(s)]
         IN  IF last \in SeqRange(front) THEN front ELSE Append(front, last)

\* all sequences over S of length 0..n
SeqsUpTo(S, n) == UNION {[1..k -> S] : k \in 0..n}

----------------------------------------------------------------------------
(* Inputs of the wizard *)

AcmeSA == <<"A", "c", "m", "e", " ", "S", "A">>
AcmeSAUpper == <<"A", "C", "M", "E", " ", "S", "A">>
AcmeSAPadded == <<"A", "c", "m", "e", " ", "S", "A", " ">>
OtherCo == <<"O", "t", "h", "e", "r", " ", "C", "o">>
Blank == <<" ", " ">>

\* what the user types into the company name field
WizardInputNames == {Str(<<>>), Str(AcmeSA)}

\* number of per-document results in a verification response of the wizard runs
MaxWizardDocs == 2
\* number of per-document results in a response of the reconciler runs
MaxDocs == 3
\* number of files in one drop
MaxDrop == 2

\* profiles counted in one run of the wizard
MaxProfilesCreated == 2

\* maxFiles={3} and maxSize={16 * 1024 * 1024} passed to FileUpload
maxFiles == 3
maxSize == 16777216

SmallPdf == [name |-> "bilan.pdf", size |-> 1048576]
LargePdf == [name |-> "scan.pdf", size |-> 17825792]
DroppableFiles == {SmallPdf, LargePdf}

WizardNames == {Str(AcmeSA), Str(OtherCo)}
ReconcilerNames == {Null, Str(<<>>), Str(Blank), Str(AcmeSA), Str(AcmeSAUpper),
                    Str(AcmeSAPadded), Str(OtherCo)}

StoredProfile == [t |-> "object", id |-> 7, status |-> "completed", company_name |-> Str(AcmeSA)]

IndividualResults(names, n) ==
    {Arr([i \in 1..Len(ns) |-> [company_name |-> ns[i]]]) : ns \in SeqsUpTo(names, n)}

ExtractedInfo(name, year, rs) ==
    [t |-> "object", company_name |-> name, fiscal_year |-> year,
     document_count |-> IF rs = Undefined THEN 1 ELSE Len(rs.a),
     individual_results |-> rs]

Year2023 == Str(<<"2", "0", "2", "3">>)

\* extracted_info: nothing recognised, or a name and a year, with or without the
\* per-document results
ExtractedInfos(names, n) ==
    {ExtractedInfo(Null, Null, Undefined)} \cup
    {ExtractedInfo(Str(AcmeSA), Year2023, rs) :
        rs \in {Undefined} \cup IndividualResults(names, n)}

\* response.data of POST /api/profiles/verify
FailedVerification ==
    [success |-> FALSE, extracted_info |-> Null, existing_profile |-> Null,
     should_create_new |-> TRUE]

SuccessfulVerifications(names, n) ==
    [success : {TRUE},
     extracted_info : {Null} \cup ExtractedInfos(names, n),
     existing_profile : {Null, StoredProfile},
     should_create_new : BOOLEAN]

WizardResponses == {FailedVerification} \cup SuccessfulVerifications(WizardNames, MaxWizardDocs)

ReconcilerResponses ==
    {FailedVerification,
     [success |-> TRUE, extracted_info |-> Null, existing_profile |-> Null,
      should_create_new |-> TRUE]} \cup
    {[success |-> TRUE,
      extracted_info |-> [t |-> "object", company_name |-> Null, fiscal_year |-> Null,
                          document_count |-> Len(rs.a), individual_results |-> rs],
      existing_profile |-> Null, should_create_new |-> TRUE] :
        rs \in IndividualResults(ReconcilerNames, MaxDocs)}

\* error.code / error.response.status of a rejected axios call
AxiosErrors == {"ERR_NETWORK", "ECONNABORTED", "500", "400"}

\* response.data of the upload endpoints that asks for a confirmation
UploadMismatches ==
    {[requires_confirmation |-> TRUE,
      comparison_result |-> [match |-> FALSE, reason |-> "upload",
                             requires_confirmation |-> TRUE, document_companies |-> <<>>],
      document_companies |-> <<>>,
      document_analysis |-> da] :
        da \in {Undefined, [t |-> "object", total_new |-> 1, total_existing |-> 0]}}

----------------------------------------------------------------------------
(* NewProfile: initial state *)

InitialProfileData == [company_name |-> Str(<<>>), fiscal_year |-> Null, email_report |-> FALSE]

WizardInit ==
    /\ currentStep = 1
    /\ loading = FALSE
    /\ verifying = FALSE
    /\ profileData = InitialProfileData
    /\ uploadedFiles = <<>>
    /\ verificationResult = Null
    /\ existingProfile = Null
    /\ originalCompanyName = Str(<<>>)
    /\ showMismatchModal = FALSE
    /\ mismatchData = Null
    /\ pendingFiles = <<>>
    /\ files = <<>>
    /\ verifyCalls = <<>>
    /\ createCall = Null
    /\ navPending = FALSE
    /\ mounted = TRUE
    /\ lastHandler = "mount"
    /\ profilesCreated = 0

----------------------------------------------------------------------------
(* NewProfile: what is rendered *)

\* `if (loading) return <spinner/>`: the page, and the modal with it, is replaced
PageShown == mounted /\ ~loading

\* CompanyNameMismatchModal renders a `fixed inset-0` backdrop above the page
ModalShown == PageShown /\ showMismatchModal

\* the controls of the page can be clicked when no backdrop covers them
Clickable == PageShown /\ ~showMismatchModal

FileUploadShown(step, busy) == step = 2 /\ ~busy

\* FileUpload's `files` state lives as long as step 2 is rendered
FilesKept(step, busy) == IF FileUploadShown(step, busy) THEN files ELSE <<>>

validateStep1 == Len(trim(profileData.company_name.s)) > 0

validateStep2 == Len(uploadedFiles) > 0 /\ Len(uploadedFiles) <= 3

\* the `Next` button (steps 1, 2) or the `Verify Profile` button (step 3, no result)
NextButtonShown ==
    \/ currentStep < 3
    \/ currentStep = 3 /\ verificationResult = Null

NextButtonDisabled_Never == FALSE

\* disabled={verifying} on both buttons that call nextStep
NextButtonDisabled == verifying

CreateProfileButtonShown ==
    /\ currentStep = 3
    /\ verificationResult # Null
    /\ verificationResult.success
    /\ existingProfile = Null
    /\ verificationResult.should_create_new # FALSE

\* disabled={loading || verifying}
CreateProfileButtonDisabled == loading \/ verifying

\* `Create New Profile Anyway`, in the step 3 panel of a shown verification result
CreateAnywayButtonShown ==
    /\ currentStep = 3
    /\ ~verifying
    /\ verificationResult # Null
    /\ \/ existingProfile # Null
       \/ verificationResult.success /\ verificationResult.should_create_new = FALSE

\* `if (!uploadedFiles.length) return`: the only test verifyProfile makes before it
\* issues the request
verifyProfileProceeds == Len(uploadedFiles) > 0

----------------------------------------------------------------------------
(* NewProfile: form input and the file picker *)

handleInputChange ==
    /\ Clickable /\ currentStep = 1
    /\ \E v \in WizardInputNames : profileData' = [profileData EXCEPT !.company_name = v]
    /\ lastHandler' = "handleInputChange"
    /\ UNCHANGED <<currentStep, loading, verifying, uploadedFiles, verificationResult,
                   existingProfile, originalCompanyName, showMismatchModal, mismatchData,
                   pendingFiles, files, verifyCalls, createCall, navPending, mounted>>

\* the files of a drop that pass the size validation
validFiles(acceptedFiles) ==
    LET ok(f) == ~(f.size > maxSize) IN SelectSeq(acceptedFiles, ok)

\* mutant: every valid file is added, whatever the number of free slots
filesToAdd_NoLimit(acceptedFiles) == validFiles(acceptedFiles)

filesToAdd(acceptedFiles) ==
    LET remainingSlots == Max(0, maxFiles - Len(files))
    IN  SubSeq(validFiles(acceptedFiles), 1, Min(remainingSlots, Len(validFiles(acceptedFiles))))

onDrop ==
    /\ Clickable /\ FileUploadShown(currentStep, loading)
    /\ \E acceptedFiles \in SeqsUpTo(DroppableFiles, MaxDrop) :
        /\ Len(acceptedFiles) > 0
        /\ IF filesToAdd(acceptedFiles) = <<>>
           THEN /\ lastHandler' = "onDrop.rejected"
                /\ UNCHANGED <<files, uploadedFiles>>
           ELSE /\ files' = files \o filesToAdd(acceptedFiles)
                /\ uploadedFiles' = files'
                /\ lastHandler' = "onDrop"
    /\ UNCHANGED <<currentStep, loading, verifying, profileData, verificationResult,
                   existingProfile, originalCompanyName, showMismatchModal, mismatchData,
                   pendingFiles, verifyCalls, createCall, navPending, mounted>>

removeFile ==
    /\ Clickable /\ FileUploadShown(currentStep, loading)
    /\ \E i \in 1..Len(files) :
        /\ files' = SubSeq(files, 1, i - 1) \o SubSeq(files, i + 1, Len(files))
        /\ uploadedFiles' = files'
    /\ lastHandler' = "removeFile"
    /\ UNCHANGED <<currentStep, loading, verifying, profileData, verificationResult,
                   existingProfile, originalCompanyName, showMismatchModal, mismatchData,
                   pendingFiles, verifyCalls, createCall, navPending, mounted>>

----------------------------------------------------------------------------
(* NewProfile: navigation and verification *)

RemoveAt(q, i) == SubSeq(q, 1, i - 1) \o SubSeq(q, i + 1, Len(q))

\* the synchronous part of verifyProfile, up to the await of axios.post; the
\* call keeps the uploadedFiles of the render it was started from
verifyProfileStart(caller) ==
    /\ verifying' = TRUE
    /\ verificationResult' = Null
    /\ verifyCalls' = Append(verifyCalls, [caller |-> caller, uploadedFiles |-> uploadedFiles])

nextStep ==
    /\ Clickable /\ NextButtonShown /\ ~NextButtonDisabled
    /\ \/ /\ \/ currentStep = 1 /\ ~validateStep1
             \/ currentStep = 2 /\ ~validateStep2
          /\ lastHandler' = "nextStep.invalid"
          /\ UNCHANGED <<currentStep, verifying, verificationResult, verifyCalls,
                         originalCompanyName, files>>
       \/ /\ currentStep = 1 /\ validateStep1
          /\ currentStep' = currentStep + 1
          /\ files' = FilesKept(currentStep', loading)
          /\ lastHandler' = "nextStep"
          /\ UNCHANGED <<verifying, verificationResult, verifyCalls, originalCompanyName>>
       \/ /\ currentStep = 2 /\ validateStep2
          /\ originalCompanyName' = profileData.company_name
          /\ IF verifyProfileProceeds
             THEN verifyProfileStart(2) /\ UNCHANGED currentStep
             ELSE currentStep' = 3 /\ UNCHANGED <<verifying, verificationResult, verifyCalls>>
          /\ files' = FilesKept(currentStep', loading)
          /\ lastHandler' = "nextStep.verify"
       \/ /\ currentStep = 3 /\ verificationResult = Null
          /\ IF verifyProfileProceeds
             THEN verifyProfileStart(3) /\ lastHandler' = "nextStep.verify"
             ELSE /\ lastHandler' = "verifyProfile.noFiles"
                  /\ UNCHANGED <<verifying, verificationResult, verifyCalls>>
          /\ UNCHANGED <<currentStep, originalCompanyName, files>>
    /\ UNCHANGED <<loading, profileData, uploadedFiles, existingProfile, showMismatchModal,
                   mismatchData, pendingFiles, createCall, navPending, mounted>>

prevStep ==
    /\ Clickable /\ currentStep # 1
    /\ currentStep' = currentStep - 1
    /\ files' = FilesKept(currentStep', loading)
    /\ lastHandler' = "prevStep"
    /\ UNCHANGED <<loading, verifying, profileData, uploadedFiles, verificationResult,
                   existingProfile, originalCompanyName, showMismatchModal, mismatchData,
                   pendingFiles, verifyCalls, createCall, navPending, mounted>>

companyNames(results) == [i \in 1..Len(results) |-> results[i].company_name]

\* .map(result => result.company_name).filter(name => name && name.trim())
documentCompanies(results) ==
    LET keep(name) == Truthy(name) /\ Truthy(Str(trim(name.s)))
    IN  SelectSeq(companyNames(results), keep)

uniqueCompanies_NoSet(results) == documentCompanies(results)

\* [...new Set(documentCompanies)]
uniqueCompanies(results) == Dedupe(documentCompanies(results))

VerificationMismatchReason == "Different company names detected in uploaded documents"

\* the object verifyProfile passes to setMismatchData
VerificationMismatch(unique) ==
    [comparison_result |-> [match |-> FALSE, reason |-> VerificationMismatchReason,
                            requires_confirmation |-> TRUE, document_companies |-> unique],
     document_companies |-> unique,
     document_analysis |-> Undefined]

\* the test, in verifyProfile, that opens the mismatch modal
mismatchDetected(data) ==
    /\ data.success
    /\ Truthy(data.extracted_info)
    /\ Truthy(data.extracted_info.individual_results)
    /\ Len(data.extracted_info.individual_results.a) > 1
    /\ Len(uniqueCompanies(data.extracted_info.individual_results.a)) > 1

verifyFinally_Missing == verifying

\* finally { setVerifying(false) }
verifyFinally == FALSE

\* the continuation of nextStep after `await verifyProfile()`
stepAfterVerify(call) == IF call.caller = 2 THEN 3 ELSE currentStep

\* axios.post('/api/profiles/verify') resolves with response.data = data
verifyResolved(i, data) ==
    LET call == verifyCalls[i]
        info == data.extracted_info
    IN  /\ verifyCalls' = RemoveAt(verifyCalls, i)
        /\ verificationResult' = data
        /\ profileData' =
             IF data.success /\ Truthy(info)
             THEN [profileData EXCEPT !.company_name = Or(info.company_name, @),
                                      !.fiscal_year = Or(info.fiscal_year, @)]
             ELSE profileData
        /\ IF mismatchDetected(data)
           THEN /\ mismatchData' = VerificationMismatch(uniqueCompanies(info.individual_results.a))
                /\ pendingFiles' = call.uploadedFiles
                /\ showMismatchModal' = TRUE
                /\ verifying' = FALSE
                /\ lastHandler' = "verifyProfile.mismatch"
                /\ UNCHANGED existingProfile
           ELSE /\ existingProfile' =
                     IF data.success
                     THEN IF Truthy(data.existing_profile) THEN data.existing_profile
                          ELSE existingProfile
                     ELSE Null
                /\ verifying' = verifyFinally
                /\ lastHandler' = IF data.success THEN "verifyProfile.verified"
                                  ELSE "verifyProfile.failed"
                /\ UNCHANGED <<mismatchData, pendingFiles, showMismatchModal>>
        /\ currentStep' = stepAfterVerify(call)
        /\ files' = FilesKept(currentStep', loading)
        /\ UNCHANGED <<loading, uploadedFiles, originalCompanyName, createCall,
                       navPending, mounted>>

\* axios.post('/api/profiles/verify') rejects: network error, timeout, HTTP error
verifyRejected(i, code) ==
    LET call == verifyCalls[i]
    IN  /\ code \in AxiosErrors
        /\ verifyCalls' = RemoveAt(verifyCalls, i)
        /\ verifying' = verifyFinally
        /\ currentStep' = stepAfterVerify(call)
        /\ files' = FilesKept(currentStep', loading)
        /\ lastHandler' = "verifyProfile.catch"
        /\ UNCHANGED <<loading, profileData, uploadedFiles, verificationResult,
                       existingProfile, originalCompanyName, showMismatchModal,
                       mismatchData, pendingFiles, createCall, navPending, mounted>>

----------------------------------------------------------------------------
(* NewProfile: profile creation and the mismatch modal *)

\* const isVerificationMismatch = !mismatchData?.document_analysis
isVerificationMismatch ==
    IF mismatchData = Null THEN TRUE ELSE ~Truthy(mismatchData.document_analysis)

\* the synchronous part of createProfile / createProfileWithUpload:
\* setLoading(true) and the POST /api/profiles
postProfile(fn, sent) ==
    /\ loading' = TRUE
    /\ createCall' = [fn |-> fn, stage |-> "profile", files |-> sent]

createProfile ==
    /\ Clickable /\ CreateProfileButtonShown /\ ~CreateProfileButtonDisabled
    /\ postProfile("createProfile", uploadedFiles)
    /\ files' = FilesKept(currentStep, loading')
    /\ lastHandler' = "createProfile"
    /\ UNCHANGED <<currentStep, verifying, profileData, uploadedFiles, verificationResult,
                   existingProfile, originalCompanyName, showMismatchModal, mismatchData,
                   pendingFiles, verifyCalls, navPending, mounted>>

createProfileWithUpload ==
    /\ Clickable /\ CreateAnywayButtonShown /\ ~loading
    /\ postProfile("createProfileWithUpload", uploadedFiles)
    /\ files' = FilesKept(currentStep, loading')
    /\ lastHandler' = "createProfileWithUpload"
    /\ UNCHANGED <<currentStep, verifying, profileData, uploadedFiles, verificationResult,
                   existingProfile, originalCompanyName, showMismatchModal, mismatchData,
                   pendingFiles, verifyCalls, navPending, mounted>>

\* POST /api/profiles resolves
profilePostResolved ==
    /\ createCall # Null /\ createCall.stage = "profile"
    /\ IF createCall.fn = "handleMismatchConfirm" \/ Len(createCall.files) > 0
       THEN /\ createCall' = [createCall EXCEPT !.stage = "upload"]
            /\ UNCHANGED navPending
       ELSE \* no files: toast, and navigate after 2 s; loading stays set
            /\ createCall' = Null
            /\ navPending' = TRUE
    /\ lastHandler' = "profilePost.resolved"
    /\ UNCHANGED <<currentStep, loading, verifying, profileData, uploadedFiles,
                   verificationResult, existingProfile, originalCompanyName,
                   showMismatchModal, mismatchData, pendingFiles, files, verifyCalls, mounted>>

\* POST /api/profiles, or the upload that follows it, rejects: every catch block
\* of the three flows ends with setLoading(false)
createRejected ==
    /\ createCall # Null
    /\ \E code \in AxiosErrors :
        lastHandler' = (IF createCall.stage = "profile" THEN "profilePost.catch"
                        ELSE "upload.catch")
    /\ createCall' = Null
    /\ loading' = FALSE
    /\ files' = FilesKept(currentStep, loading')
    /\ UNCHANGED <<currentStep, verifying, profileData, uploadedFiles, verificationResult,
                   existingProfile, originalCompanyName, showMismatchModal, mismatchData,
                   pendingFiles, verifyCalls, navPending, mounted>>

\* smart-upload / upload resolves with requires_confirmation
uploadNeedsConfirmation ==
    /\ createCall # Null /\ createCall.stage = "upload"
    /\ createCall.fn # "handleMismatchConfirm"
    /\ \E data \in UploadMismatches : mismatchData' = data
    /\ pendingFiles' = createCall.files
    /\ showMismatchModal' = TRUE
    /\ loading' = FALSE
    /\ createCall' = Null
    /\ files' = FilesKept(currentStep, loading')
    /\ lastHandler' = "upload.mismatch"
    /\ UNCHANGED <<currentStep, verifying, profileData, uploadedFiles, verificationResult,
                   existingProfile, originalCompanyName, verifyCalls, navPending, mounted>>

\* the upload resolves without a mismatch: toast, navigate after 2 s
uploadResolved ==
    /\ createCall # Null /\ createCall.stage = "upload"
    /\ IF createCall.fn = "handleMismatchConfirm"
       THEN /\ showMismatchModal' = FALSE
            /\ mismatchData' = Null
            /\ pendingFiles' = <<>>
            /\ loading' = FALSE
       ELSE UNCHANGED <<showMismatchModal, mismatchData, pendingFiles, loading>>
    /\ navPending' = TRUE
    /\ createCall' = Null
    /\ files' = FilesKept(currentStep, loading')
    /\ lastHandler' = "upload.resolved"
    /\ UNCHANGED <<currentStep, verifying, profileData, uploadedFiles, verificationResult,
                   existingProfile, originalCompanyName, verifyCalls, mounted>>

resetForm_KeepsFiles ==
    /\ currentStep' = 1
    /\ verificationResult' = Null
    /\ existingProfile' = Null
    /\ profileData' = InitialProfileData
    /\ originalCompanyName' = Str(<<>>)
    /\ UNCHANGED uploadedFiles

\* Reset form to initial state
resetForm ==
    /\ currentStep' = 1
    /\ uploadedFiles' = <<>>
    /\ verificationResult' = Null
    /\ existingProfile' = Null
    /\ profileData' = InitialProfileData
    /\ originalCompanyName' = Str(<<>>)

handleMismatchConfirm ==
    /\ ModalShown
    /\ IF isVerificationMismatch
       THEN \* acknowledged: close the modal, the user may go on
            /\ showMismatchModal' = FALSE
            /\ mismatchData' = Null
            /\ pendingFiles' = <<>>
            /\ loading' = FALSE
            /\ lastHandler' = "handleMismatchConfirm.verification"
            /\ UNCHANGED createCall
       ELSE \* an upload mismatch: create the profile, then upload pendingFiles
            /\ postProfile("handleMismatchConfirm", pendingFiles)
            /\ lastHandler' = "handleMismatchConfirm.upload"
            /\ UNCHANGED <<showMismatchModal, mismatchData, pendingFiles>>
    /\ files' = FilesKept(currentStep, loading')
    /\ UNCHANGED <<currentStep, verifying, profileData, uploadedFiles, verificationResult,
                   existingProfile, originalCompanyName, verifyCalls, navPending, mounted>>

handleMismatchCancel ==
    /\ ModalShown
    /\ showMismatchModal' = FALSE
    /\ mismatchData' = Null
    /\ pendingFiles' = <<>>
    /\ IF isVerificationMismatch
       THEN resetForm /\ lastHandler' = "handleMismatchCancel.verification"
       ELSE /\ lastHandler' = "handleMismatchCancel.upload"
            /\ UNCHANGED <<currentStep, uploadedFiles, verificationResult, existingProfile,
                           profileData, originalCompanyName>>
    /\ files' = FilesKept(currentStep', loading)
    /\ UNCHANGED <<loading, verifying, verifyCalls, createCall, navPending, mounted>>

\* onClose={() => setShowMismatchModal(false)}: the X button and the backdrop
modalOnClose ==
    /\ ModalShown
    /\ showMismatchModal' = FALSE
    /\ lastHandler' = "modal.onClose"
    /\ UNCHANGED <<currentStep, loading, verifying, profileData, uploadedFiles,
                   verificationResult, existingProfile, originalCompanyName, mismatchData,
                   pendingFiles, files, verifyCalls, createCall, navPending, mounted>>

\* navigate('/profiles'): the `Back to Profiles` button, or the 2 s timer of a
\* finished creation; NewProfile unmounts and its state is gone
navigate ==
    /\ mounted
    /\ Clickable \/ navPending
    /\ currentStep' = 1
    /\ loading' = FALSE
    /\ verifying' = FALSE
    /\ profileData' = InitialProfileData
    /\ uploadedFiles' = <<>>
    /\ verificationResult' = Null
    /\ existingProfile' = Null
    /\ originalCompanyName' = Str(<<>>)
    /\ showMismatchModal' = FALSE
    /\ mismatchData' = Null
    /\ pendingFiles' = <<>>
    /\ files' = <<>>
    /\ verifyCalls' = <<>>
    /\ createCall' = Null
    /\ navPending' = FALSE
    /\ mounted' = FALSE
    /\ lastHandler' = "navigate"

----------------------------------------------------------------------------
(* The wizard *)

verifyCompletes ==
    \E i \in 1..Len(verifyCalls) :
        \/ \E data \in WizardResponses : verifyResolved(i, data)
        \/ \E code \in AxiosErrors : verifyRejected(i, code)

\* ProfilesList is not on the page
ListIdle ==
    /\ listMounted = FALSE
    /\ profiles = <<>>
    /\ listLoading = TRUE
    /\ searchTerm = Str(<<>>)
    /\ debouncedSearchTerm = Str(<<>>)
    /\ currentPage = 1
    /\ totalPages = 1
    /\ reprocessLoading = False
    /\ isAutoRefreshEnabled = FALSE
    /\ refreshIntervalRef = Null
    /\ debounceTimer = Null
    /\ intervals = {}
    /\ fetchCalls = <<>>
    /\ reprocessCalls = {}
    /\ effectDeps = Null
    /\ shownSuperseded = FALSE

\* AuthProvider is not on the page and nothing is stored
AuthIdle ==
    /\ user = Null
    /\ token = Null
    /\ authLoading = TRUE
    /\ authorization = Undefined
    /\ localStorage = [token |-> Null, user |-> Null]
    /\ loginCalls = <<>>
    /\ loginResult = Undefined
    /\ authHandler = "none"

ReportIdle ==
    /\ extractedKPIs = Obj(<<>>)
    /\ computedRatios = Obj(<<>>)
    /\ fiscalYears = Null
    /\ kpiCall = Null
    /\ cagrCell = Null
    /\ onload = "idle"
    /\ dom = Null
    /\ ratios = Null

Init == WizardInit /\ ReportIdle /\ ListIdle /\ AuthIdle

Next ==
    \/ handleInputChange /\ UNCHANGED <<reportVars, profilesCreated, listVars, authVars>>
    \/ onDrop /\ UNCHANGED <<reportVars, profilesCreated, listVars, authVars>>
    \/ removeFile /\ UNCHANGED <<reportVars, profilesCreated, listVars, authVars>>
    \/ nextStep /\ UNCHANGED <<reportVars, profilesCreated, listVars, authVars>>
    \/ prevStep /\ UNCHANGED <<reportVars, profilesCreated, listVars, authVars>>
    \/ verifyCompletes /\ UNCHANGED <<reportVars, profilesCreated, listVars, authVars>>
    \/ createProfile /\ UNCHANGED <<reportVars, profilesCreated, listVars, authVars>>
    \/ createProfileWithUpload /\ UNCHANGED <<reportVars, profilesCreated, listVars, authVars>>
    \/ profilePostResolved /\ UNCHANGED <<reportVars, profilesCreated, listVars, authVars>>
    \/ createRejected /\ UNCHANGED <<reportVars, profilesCreated, listVars, authVars>>
    \/ uploadNeedsConfirmation /\ UNCHANGED <<reportVars, profilesCreated, listVars, authVars>>
    \/ uploadResolved /\ UNCHANGED <<reportVars, profilesCreated, listVars, authVars>>
    \/ handleMismatchConfirm /\ UNCHANGED <<reportVars, profilesCreated, listVars, authVars>>
    \/ handleMismatchCancel /\ UNCHANGED <<reportVars, profilesCreated, listVars, authVars>>
    \/ modalOnClose /\ UNCHANGED <<reportVars, profilesCreated, listVars, authVars>>
    \/ navigate /\ UNCHANGED <<reportVars, profilesCreated, listVars, authVars>>

Spec == Init /\ [][Next]_vars

\* The same wizard with the successful POST /api/profiles responses counted.
CreationNext ==
    \/ handleInputChange /\ UNCHANGED <<reportVars, profilesCreated, listVars, authVars>>
    \/ onDrop /\ UNCHANGED <<reportVars, profilesCreated, listVars, authVars>>
    \/ removeFile /\ UNCHANGED <<reportVars, profilesCreated, listVars, authVars>>
    \/ nextStep /\ UNCHANGED <<reportVars, profilesCreated, listVars, authVars>>
    \/ prevStep /\ UNCHANGED <<reportVars, profilesCreated, listVars, authVars>>
    \/ verifyCompletes /\ UNCHANGED <<reportVars, profilesCreated, listVars, authVars>>
    \/ createProfile /\ UNCHANGED <<reportVars, profilesCreated, listVars, authVars>>
    \/ createProfileWithUpload /\ UNCHANGED <<reportVars, profilesCreated, listVars, authVars>>
    \/ profilePostResolved /\ profilesCreated' = Min(profilesCreated + 1, MaxProfilesCreated)
         /\ UNCHANGED <<reportVars, listVars, authVars>>
    \/ createRejected /\ UNCHANGED <<reportVars, profilesCreated, listVars, authVars>>
    \/ uploadNeedsConfirmation /\ UNCHANGED <<reportVars, profilesCreated, listVars, authVars>>
    \/ uploadResolved /\ UNCHANGED <<reportVars, profilesCreated, listVars, authVars>>
    \/ handleMismatchConfirm /\ UNCHANGED <<reportVars, profilesCreated, listVars, authVars>>
    \/ handleMismatchCancel /\ UNCHANGED <<reportVars, profilesCreated, listVars, authVars>>
    \/ modalOnClose /\ UNCHANGED <<reportVars, profilesCreated, listVars, authVars>>
    \/ navigate /\ UNCHANGED <<reportVars, profilesCreated, listVars, authVars>>

SpecCreation == Init /\ [][CreationNext]_vars

----------------------------------------------------------------------------
(* The reconciler: one verification round over every list of per-document names *)

reconcile ==
    \E i \in 1..Len(verifyCalls) :
        \E data \in ReconcilerResponses : verifyResolved(i, data)

ReconcilerNext ==
    \/ handleInputChange /\ UNCHANGED <<reportVars, profilesCreated, listVars, authVars>>
    \/ onDrop /\ UNCHANGED <<reportVars, profilesCreated, listVars, authVars>>
    \/ nextStep /\ UNCHANGED <<reportVars, profilesCreated, listVars, authVars>>
    \/ reconcile /\ UNCHANGED <<reportVars, profilesCreated, listVars, authVars>>
    \/ handleMismatchConfirm /\ UNCHANGED <<reportVars, profilesCreated, listVars, authVars>>
    \/ handleMismatchCancel /\ UNCHANGED <<reportVars, profilesCreated, listVars, authVars>>

SpecReconciler == Init /\ [][ReconcilerNext]_vars

----------------------------------------------------------------------------
(* Properties of the wizard and of the reconciler *)

\* the per-document company names of a verification response
resultNames(data) ==
    IF data # Null /\ data.success /\ data.extracted_info # Null
       /\ data.extracted_info.individual_results # Undefined
    THEN companyNames(data.extracted_info.individual_results.a)
    ELSE <<>>

\* the non-empty names among them, as a set of strings
DistinctNonEmptyNames(data) ==
    {v \in SeqRange(resultNames(data)) : v # Null /\ trim(v.s) # <<>>}

\* the same names, trimmed and compared without regard to letter case
DistinctFoldedNames(data) ==
    {toLowerCase(trim(v.s)) : v \in DistinctNonEmptyNames(data)}

\* a verification round has just ended with a successful response
RoundSucceeded == lastHandler \in {"verifyProfile.mismatch", "verifyProfile.verified"}

\* the shown result is one in which verifyProfile saw several companies, and the
\* report it made has been neither confirmed nor cancelled
MismatchUnconfirmed ==
    /\ verificationResult # Null
    /\ mismatchDetected(verificationResult)
    /\ mismatchData # Null
    /\ mismatchData.comparison_result.reason = VerificationMismatchReason

\* a click can now issue POST /api/profiles from the page
CanCreateProfile ==
    /\ Clickable
    /\ \/ CreateProfileButtonShown /\ ~CreateProfileButtonDisabled
       \/ CreateAnywayButtonShown /\ ~loading

\* C1: while a detected company-name mismatch is neither confirmed nor cancelled,
\* no control that issues POST /api/profiles is enabled; closing the modal by
\* its X button or its backdrop does not enable `Create Profile`.
C1_MismatchGatesCreation == MismatchUnconfirmed => ~CanCreateProfile

\* C2: when the mismatch test has run on a response (two or more per-document
\* results), the modal is opened exactly if the names, trimmed and compared
\* case-insensitively, form more than one company, and it lists that many.
C2_DistinctNamesFolded ==
    (RoundSucceeded /\ Len(resultNames(verificationResult)) > 1) =>
        /\ showMismatchModal <=> Cardinality(DistinctFoldedNames(verificationResult)) > 1
        /\ showMismatchModal =>
              Len(mismatchData.document_companies)
                 = Cardinality(DistinctFoldedNames(verificationResult))

C5_CancelResetsForm ==
    lastHandler = "handleMismatchCancel.verification" =>
        /\ ~showMismatchModal
        /\ mismatchData = Null
        /\ pendingFiles = <<>>
        /\ currentStep = 1
        /\ uploadedFiles = <<>>
        /\ verificationResult = Null
        /\ existingProfile = Null
        /\ profileData.company_name = Str(<<>>)
        /\ ~verifying /\ verifyCalls = <<>>

C5_Witness ==
    /\ lastHandler = "handleMismatchCancel.verification"
    /\ currentStep = 1

\* C6: verifying is false whenever no verify request is outstanding; right after
\* a rejected verify call verifying is false, there is no verification result,
\* and the button that starts a round is shown and enabled.
C6_VerifyFailureRecoverable ==
    /\ verifyCalls = <<>> => ~verifying
    /\ lastHandler = "verifyProfile.catch" =>
          /\ ~verifying
          /\ verificationResult = Null
          /\ Clickable /\ NextButtonShown /\ ~NextButtonDisabled

C6_Witness ==
    /\ lastHandler = "verifyProfile.catch"
    /\ currentStep = 3
    /\ uploadedFiles # <<>>

----------------------------------------------------------------------------
(* The report script and the result page: KPI resolver and CAGR *)

\* key in o
HasOwn(o, key) == \E i \in 1..Len(o.e) : o.e[i][1] = key

\* o[key]: undefined for a missing property and for a property of a primitive
Get(o, key) ==
    IF o.t = "object" /\ HasOwn(o, key)
    THEN o.e[CHOOSE i \in 1..Len(o.e) : o.e[i][1] = key][2]
    ELSE Undefined

\* o?.[key]
OptGet(o, key) == IF o.t \in {"null", "undefined"} THEN Undefined ELSE Get(o, key)

\* year tokens of the callers and year labels of the extracted KPIs
TokenN == <<"n">>
TokenN1 == <<"n", "1">>
YearN == <<"N">>
YearN1 == <<"N", "-", "1">>

yearMappings ==
    Obj(<< <<TokenN, Str(YearN)>>,
           <<TokenN1, Str(YearN1)>>,
           <<(<<"n", "2">>), Str(<<"N", "-", "2">>)>>,
           <<(<<"n", "3">>), Str(<<"N", "-", "3">>)>>,
           <<(<<"n", "4">>), Str(<<"N", "-", "4">>)>>,
           <<(<<"n", "5">>), Str(<<"N", "-", "5">>)>> >>)

\* let normalizedYear = year; if (yearMappings[year]) normalizedYear = yearMappings[year]
normalizedYearOf(year) ==
    IF Truthy(Get(yearMappings, year)) THEN Get(yearMappings, year).s ELSE year

\* `${kpiName}_${year}`
flatKeyOf(kpiName, year) == kpiName \o <<"_">> \o year

\* KPI keys of the financial table
chiffre_d_affaires ==
    <<"c", "h", "i", "f", "f", "r", "e", "_", "d", "_", "a", "f", "f", "a",
      "i", "r", "e", "s">>
ebitda ==
    <<"e", "b", "i", "t", "d", "a">>
resultat_net ==
    <<"r", "e", "s", "u", "l", "t", "a", "t", "_", "n", "e", "t">>
tresorerie_nette ==
    <<"t", "r", "e", "s", "o", "r", "e", "r", "i", "e", "_", "n", "e", "t",
      "t", "e">>
capitaux_propres ==
    <<"c", "a", "p", "i", "t", "a", "u", "x", "_", "p", "r", "o", "p", "r",
      "e", "s">>
dette_nette ==
    <<"d", "e", "t", "t", "e", "_", "n", "e", "t", "t", "e">>
bfr ==
    <<"b", "f", "r">>

\* French labels of the extracted KPIs
ChiffreDAffaires ==
    <<"C", "h", "i", "f", "f", "r", "e", " ", "d", "'", "a", "f", "f", "a",
      "i", "r", "e", "s">>
CapitauxPropres ==
    <<"C", "a", "p", "i", "t", "a", "u", "x", " ", "p", "r", "o", "p", "r",
      "e", "s">>
CapitauxPropresAssimiles ==
    <<"C", "a", "p", "i", "t", "a", "u", "x", " ", "p", "r", "o", "p", "r",
      "e", "s", " ", "a", "s", "s", "i", "m", "i", "l", "é", "s">>
DetteNette ==
    <<"D", "e", "t", "t", "e", " ", "n", "e", "t", "t", "e">>
ActifCirculant ==
    <<"A", "c", "t", "i", "f", " ", "c", "i", "r", "c", "u", "l", "a", "n",
      "t">>
PassifCirculant ==
    <<"P", "a", "s", "s", "i", "f", " ", "c", "i", "r", "c", "u", "l", "a",
      "n", "t">>
ActifCirculantTotal ==
    <<"A", "c", "t", "i", "f", " ", "c", "i", "r", "c", "u", "l", "a", "n",
      "t", " ", "t", "o", "t", "a", "l">>
ResultatExploitation ==
    <<"R", "é", "s", "u", "l", "t", "a", "t", " ", "d", "'", "e", "x", "p",
      "l", "o", "i", "t", "a", "t", "i", "o", "n">>
DotationsExploitation ==
    <<"D", "o", "t", "a", "t", "i", "o", "n", "s", " ", "d", "'", "e", "x",
      "p", "l", "o", "i", "t", "a", "t", "i", "o", "n">>
ReprisesExploitation ==
    <<"R", "e", "p", "r", "i", "s", "e", "s", " ", "d", "'", "e", "x", "p",
      "l", "o", "i", "t", "a", "t", "i", "o", "n", ";", " ", "t", "r", "a",
      "n", "s", "f", "e", "r", "t", "s", " ", "d", "e", " ", "c", "h", "a",
      "r", "g", "e", "s">>
ResultatNet ==
    <<"R", "é", "s", "u", "l", "t", "a", "t", " ", "N", "e", "t">>
TresorerieNette ==
    <<"T", "r", "é", "s", "o", "r", "e", "r", "i", "e", " ", "n", "e", "t",
      "t", "e">>
LabelEBITDA ==
    <<"E", "B", "I", "T", "D", "A">>
LabelBFR ==
    <<"B", "F", "R">>

\* the static registry: KPI key to label of the extracted KPIs
kpiNameMappings ==
    Obj(<<
        <<chiffre_d_affaires,
          Str(ChiffreDAffaires)>>,
        <<resultat_net,
          Str(ResultatNet)>>,
        <<capitaux_propres,
          Str(CapitauxPropres)>>,
        <<<<"r", "e", "s", "u", "l", "t", "a", "t", "_", "d", "_", "e",
            "x", "p", "l", "o", "i", "t", "a", "t", "i", "o", "n">>,
          Str(ResultatExploitation)>>,
        <<<<"d", "o", "t", "a", "t", "i", "o", "n", "s", "_", "d", "_",
            "e", "x", "p", "l", "o", "i", "t", "a", "t", "i", "o", "n">>,
          Str(DotationsExploitation)>>,
        <<<<"r", "e", "p", "r", "i", "s", "e", "s", "_", "d", "_", "e",
            "x", "p", "l", "o", "i", "t", "a", "t", "i", "o", "n">>,
          Str(ReprisesExploitation)>>,
        <<<<"r", "e", "d", "e", "v", "a", "n", "c", "e", "s", "_", "c",
            "r", "e", "d", "i", "t", "_", "b", "a", "i", "l">>,
          Str(<<"R", "e", "d", "e", "v", "a", "n", "c", "e", "s", " ",
                 "d", "e", " ", "c", "r", "é", "d", "i", "t", "-", "b",
                 "a", "i", "l">>)>>,
        <<<<"t", "r", "e", "s", "o", "r", "e", "r", "i", "e", "_", "a",
            "c", "t", "i", "f">>,
          Str(<<"T", "r", "é", "s", "o", "r", "e", "r", "i", "e", "-",
                 "A", "c", "t", "i", "f">>)>>,
        <<<<"t", "i", "t", "r", "e", "s", "_", "v", "a", "l", "e", "u",
            "r", "s", "_", "p", "l", "a", "c", "e", "m", "e", "n", "t">>,
          Str(<<"T", "i", "t", "r", "e", "s", " ", "V", "a", "l", "e",
                 "u", "r", "s", " ", "d", "e", " ", "p", "l", "a", "c",
                 "e", "m", "e", "n", "t">>)>>,
        <<<<"d", "e", "t", "t", "e", "s", "_", "f", "i", "n", "a", "n",
            "c", "e", "m", "e", "n", "t">>,
          Str(<<"D", "e", "t", "t", "e", "s", " ", "d", "e", " ", "f",
                 "i", "n", "a", "n", "c", "e", "m", "e", "n", "t">>)>>,
        <<<<"t", "r", "e", "s", "o", "r", "e", "r", "i", "e", "_", "p",
            "a", "s", "s", "i", "f">>,
          Str(<<"T", "r", "é", "s", "o", "r", "e", "r", "i", "e", "-",
                 "p", "a", "s", "s", "i", "f">>)>>,
        <<tresorerie_nette,
          Str(TresorerieNette)>>,
        <<<<"c", "o", "m", "p", "t", "e", "s", "_", "a", "s", "s", "o",
            "c", "i", "e", "s", "_", "a", "c", "t", "i", "f">>,
          Str(<<"C", "o", "m", "p", "t", "e", " ", "d", "'", "a", "s",
                 "s", "o", "c", "i", "é", "s", " ", "(", "A", "c", "t",
                 "i", "f", ")">>)>>,
        <<<<"c", "o", "m", "p", "t", "e", "s", "_", "a", "s", "s", "o",
            "c", "i", "e", "s", "_", "p", "a", "s", "s", "i", "f">>,
          Str(<<"C", "o", "m", "p", "t", "e", " ", "d", "'", "a", "s",
                 "s", "o", "c", "i", "é", "s", " ", "(", "P", "a", "s",
                 "s", "i", "f", ")">>)>>,
        <<<<"r", "e", "d", "e", "v", "a", "n", "c", "e", "s", "_", "m",
            "o", "i", "n", "s", "_", "u", "n", "_", "a", "n">>,
          Str(<<"R", "e", "d", "e", "v", "a", "n", "c", "e", "s", " ",
                 "r", "e", "s", "t", "a", "n", "t", " ", "à", " ", "p",
                 "a", "y", "e", "r", " ", "(", "a", " ", "m", "o", "i",
                 "n", "s", " ", "d", "'", "u", "n", " ", "a", "n", ")">>)>>,
        <<<<"r", "e", "d", "e", "v", "a", "n", "c", "e", "s", "_", "p",
            "l", "u", "s", "_", "u", "n", "_", "a", "n">>,
          Str(<<"R", "e", "d", "e", "v", "a", "n", "c", "e", "s", " ",
                 "r", "e", "s", "t", "a", "n", "t", " ", "à", " ", "p",
                 "a", "y", "e", "r", " ", "(", "a", " ", "p", "l", "u",
                 "s", " ", "d", "'", "u", "n", " ", "a", "n", ")">>)>>,
        <<<<"p", "r", "i", "x", "_", "a", "c", "h", "a", "t", "_", "r",
            "e", "s", "i", "d", "u", "e", "l">>,
          Str(<<"P", "r", "i", "x", " ", "d", "'", "a", "c", "h", "a",
                 "t", " ", "r", "é", "s", "i", "d", "u", "e", "l", " ",
                 "e", "n", " ", "f", "i", "n", " ", "d", "u", " ", "c",
                 "o", "n", "t", "r", "a", "t">>)>>,
        <<<<"a", "c", "t", "i", "f", "_", "c", "i", "r", "c", "u", "l",
            "a", "n", "t">>,
          Str(ActifCirculant)>>,
        <<<<"p", "a", "s", "s", "i", "f", "_", "c", "i", "r", "c", "u",
            "l", "a", "n", "t">>,
          Str(PassifCirculant)>>,
        <<<<"a", "c", "t", "i", "f", "_", "c", "i", "r", "c", "u", "l",
            "a", "n", "t", "_", "t", "o", "t", "a", "l">>,
          Str(ActifCirculantTotal)>>
    >>)

\* ToNumber of a string: decimal digits only, anything else is NaN
Digits == <<"0", "1", "2", "3", "4", "5", "6", "7", "8", "9">>

RECURSIVE DigitsValue(_)
DigitsValue(s) ==
    IF s = <<>> THEN 0
    ELSE 10 * DigitsValue(SubSeq(s, 1, Len(s) - 1))
         + (CHOOSE d \in 0..9 : Digits[d + 1] = s[Len(s)])

ToNumber(v) ==
    CASE v.t = "num" -> v
      [] v.t = "null" -> Num(0)
      [] v.t = "str" ->
           IF trim(v.s) = <<>> THEN Num(0)
           ELSE IF \A i \in 1..Len(trim(v.s)) : trim(v.s)[i] \in SeqRange(Digits)
                THEN Num(DigitsValue(trim(v.s)))
                ELSE NaN
      [] OTHER -> NaN

\* isNaN(v)
isNaN(v) == ToNumber(v) = NaN

\* a + b and a - b on numbers
Plus(a, b) == CASE IsNum(a) /\ IsNum(b) -> Num(a.n + b.n)
Minus(a, b) == CASE IsNum(a) /\ IsNum(b) -> Num(a.n - b.n)

\* mutant: the reprises added instead of subtracted
calculateEBITDA_ReprisesAdded(year) ==
    Plus(Plus(Or(OptGet(Get(extractedKPIs, ResultatExploitation), year), Num(0)),
              Or(OptGet(Get(extractedKPIs, DotationsExploitation), year), Num(0))),
         Or(OptGet(Get(extractedKPIs, ReprisesExploitation), year), Num(0)))

\* EBITDA = Resultat d'exploitation + Dotations d'exploitation - Reprises d'exploitation
calculateEBITDA(year) ==
    LET resultatExploitation ==
            Or(OptGet(Get(extractedKPIs, ResultatExploitation), year), Num(0))
        dotationsExploitation ==
            Or(OptGet(Get(extractedKPIs, DotationsExploitation), year), Num(0))
        reprisesExploitation ==
            Or(OptGet(Get(extractedKPIs, ReprisesExploitation), year), Num(0))
    IN  Minus(Plus(resultatExploitation, dotationsExploitation), reprisesExploitation)

\* BFR = Actif circulant - Passif circulant
calculateBFR(year) ==
    LET actifCirculant == Or(OptGet(Get(extractedKPIs, ActifCirculant), year), Num(0))
        passifCirculant == Or(OptGet(Get(extractedKPIs, PassifCirculant), year), Num(0))
    IN  Minus(actifCirculant, passifCirculant)

\* extractedKPIs[dbKey][normalizedYear] || null
nestedValue(row, normalizedYear) == Or(Get(row, normalizedYear), Null)

\* the label matches the search pattern (either one contains the other)
fuzzyMatch(key, searchPattern) ==
    \/ includes(toLowerCase(key), searchPattern)
    \/ includes(searchPattern, toLowerCase(key))

\* final fallback: the first matching label whose year map has the year
fuzzyFallback(kpiName, normalizedYear) ==
    LET searchPattern == replaceUnderscores(toLowerCase(kpiName))
        rows == extractedKPIs.e
        found == {i \in 1..Len(rows) :
                     /\ fuzzyMatch(rows[i][1], searchPattern)
                     /\ rows[i][2].t = "object"
                     /\ HasOwn(rows[i][2], normalizedYear)}
    IN  IF Truthy(extractedKPIs) /\ Len(rows) > 0 /\ found # {}
        THEN Get(rows[CHOOSE i \in found : \A j \in found : i <= j][2], normalizedYear)
        ELSE Null

\* getKPIValue of the report script
getKPIValue(kpiName, year) ==
    LET normalizedYear == normalizedYearOf(year)
        flatKey == flatKeyOf(kpiName, year)
        dbKey == Get(kpiNameMappings, kpiName)
    IN  IF Get(computedRatios, flatKey) # Undefined
        THEN Get(computedRatios, flatKey)
        ELSE IF kpiName = ebitda THEN calculateEBITDA(normalizedYear)
        ELSE IF kpiName = bfr THEN calculateBFR(normalizedYear)
        ELSE IF Truthy(dbKey) /\ Truthy(Get(extractedKPIs, dbKey.s))
             THEN nestedValue(Get(extractedKPIs, dbKey.s), normalizedYear)
             ELSE fuzzyFallback(kpiName, normalizedYear)

\* a quotient p / q of two integers, q > 0, kept exact
Quot(p, q) == [t |-> "quot", p |-> p, q |-> q]
Infinity(negative) == [t |-> "infinity", negative |-> negative]

\* a / b
Divide(a, b) ==
    LET x == ToNumber(a)
        y == ToNumber(b)
    IN  IF x = NaN \/ y = NaN THEN NaN
        ELSE IF y.n = 0 THEN (IF x.n = 0 THEN NaN ELSE Infinity(x.n < 0))
        ELSE IF y.n > 0 THEN Quot(x.n, y.n) ELSE Quot(-x.n, -y.n)

\* x - k and x * k for a quotient x and an integer k
QuotMinus(x, k) == IF x.t = "quot" THEN Quot(x.p - k * x.q, x.q) ELSE x
QuotTimes(x, k) == IF x.t = "quot" THEN Quot(x.p * k, x.q) ELSE x

\* ((current / previous) - 1) * 100
cagrOf(current, previous) == QuotTimes(QuotMinus(Divide(current, previous), 1), 100)

\* mutant: the test without previous !== 0
cagrComputable_ZeroPrior(current, previous) ==
    /\ current \notin {Null, Undefined}
    /\ previous \notin {Null, Undefined}
    /\ ~isNaN(current)
    /\ ~isNaN(previous)

\* current != null && previous != null && !isNaN(current) && !isNaN(previous) && previous !== 0
cagrComputable(current, previous) ==
    /\ current \notin {Null, Undefined}
    /\ previous \notin {Null, Undefined}
    /\ ~isNaN(current)
    /\ ~isNaN(previous)
    /\ previous # Num(0)

\* x.toFixed(1), in tenths: the nearest tenth, a tie away from zero
toFixed1(x) ==
    LET a == Abs(x.p)
        m == (20 * a + x.q) \div (2 * x.q)
    IN  IF x.p < 0 THEN -m ELSE m

\* cagr >= 0
isPositive(x) ==
    CASE x.t = "quot" -> x.p >= 0
      [] x.t = "infinity" -> ~x.negative
      [] OTHER -> FALSE

\* what a CAGR cell shows: the no-data dash, or a signed percentage
NoDataCell == [class |-> "change", dash |-> TRUE]
PercentCell(x) ==
    LET class == IF isPositive(x) THEN "change positive" ELSE "change negative"
    IN  CASE x.t = "quot" -> [class |-> class, tenths |-> toFixed1(x)]
          [] x.t = "infinity" -> [class |-> class, infinite |-> TRUE]
          [] OTHER -> [class |-> class, nan |-> TRUE]

\* renderCAGRCell of the report script
renderCAGRCell(cagr) ==
    IF cagr \in {Null, Undefined} \/ cagr = NaN THEN NoDataCell ELSE PercentCell(cagr)

\* the cell computeAndDisplayCAGR writes for the two resolved values
cagrCellOf(current, previous) ==
    IF cagrComputable(current, previous)
    THEN renderCAGRCell(cagrOf(current, previous))
    ELSE renderCAGRCell(Null)

\* the KPIs whose CAGR cell the report script fills, in the order of the calls
CagrKeys == <<chiffre_d_affaires, ebitda, resultat_net, tresorerie_nette,
              capitaux_propres, dette_nette, bfr>>

\* how many of the calls of a script have been made
CallsMade(script, keys) ==
    IF kpiCall = Null THEN 0
    ELSE IF kpiCall.script # script THEN Len(keys)
    ELSE CHOOSE i \in 1..Len(keys) : keys[i] = kpiCall.kpiName

computeAndDisplayCAGR ==
    /\ CallsMade("report", CagrKeys) < Len(CagrKeys)
    /\ LET kpiName == CagrKeys[CallsMade("report", CagrKeys) + 1]
           current == getKPIValue(kpiName, TokenN)
           previous == getKPIValue(kpiName, TokenN1)
       IN  /\ kpiCall' = [script |-> "report", kpiName |-> kpiName,
                          current |-> current, previous |-> previous]
           /\ cagrCell' = cagrCellOf(current, previous)
           /\ UNCHANGED <<extractedKPIs, computedRatios, fiscalYears>>

\* the result page: the KPI list of the diagnostic table, key and dbKey
kpiList ==
    << [key |-> chiffre_d_affaires, dbKey |-> ChiffreDAffaires],
       [key |-> ebitda, dbKey |-> LabelEBITDA],
       [key |-> resultat_net, dbKey |-> ResultatNet],
       [key |-> tresorerie_nette, dbKey |-> TresorerieNette],
       [key |-> capitaux_propres, dbKey |-> CapitauxPropres],
       [key |-> dette_nette, dbKey |-> DetteNette],
       [key |-> bfr, dbKey |-> LabelBFR] >>

yearMapping == Obj(<< <<TokenN, Str(YearN)>>, <<TokenN1, Str(YearN1)>> >>)

\* getKPIValue of the result page
pageGetKPIValue(kpi, year) ==
    LET flatKey == flatKeyOf(kpi.key, year)
        normalizedYear == Or(Get(yearMapping, year), Str(year)).s
        row == Get(extractedKPIs, kpi.dbKey)
    IN  IF Get(computedRatios, flatKey) # Undefined
        THEN Get(computedRatios, flatKey)
        ELSE IF Truthy(row) /\ Get(row, normalizedYear) # Undefined
             THEN Get(row, normalizedYear)
             ELSE Null

\* renderCAGR of the result page
renderCAGR(current, previous) ==
    IF cagrComputable(current, previous)
    THEN PercentCell(cagrOf(current, previous))
    ELSE NoDataCell

\* one row of the diagnostic table of the result page
renderRow ==
    /\ CallsMade("page", [i \in 1..Len(kpiList) |-> kpiList[i].key]) < Len(kpiList)
    /\ LET kpi == kpiList[CallsMade("page", [i \in 1..Len(kpiList) |-> kpiList[i].key]) + 1]
           valueN == pageGetKPIValue(kpi, TokenN)
           valueN1 == pageGetKPIValue(kpi, TokenN1)
       IN  /\ kpiCall' = [script |-> "page", kpiName |-> kpi.key,
                          current |-> valueN, previous |-> valueN1]
           /\ cagrCell' = renderCAGR(valueN, valueN1)
           /\ UNCHANGED <<extractedKPIs, computedRatios, fiscalYears>>

----------------------------------------------------------------------------
(* The snapshots the resolver is applied to *)

\* a year map with the value c for N and p for N-1; undefined leaves the year out
YearMap(c, p) ==
    Obj((IF c = Undefined THEN <<>> ELSE << <<YearN, c>> >>)
        \o (IF p = Undefined THEN <<>> ELSE << <<YearN1, p>> >>))

YearMaps(currentValues, previousValues) ==
    {YearMap(c, p) : c \in currentValues \cup {Undefined},
                     p \in previousValues \cup {Undefined}}

IsRow(r) == r[2] # Undefined

\* extracted KPIs with, for each <<label, year maps>>, no row or a row with one of the maps
RowsOf(families) ==
    {Obj(SelectSeq([i \in 1..Len(families) |-> <<families[i][1], f[i]>>], IsRow)) :
        f \in {g \in [1..Len(families) -> UNION {families[i][2] : i \in 1..Len(families)}
                                          \cup {Undefined}] :
                  \A i \in 1..Len(families) : g[i] \in families[i][2] \cup {Undefined}}}

Unparsable == Str(<<"n", "/", "a">>)

RevenueRows ==
    RowsOf(<< <<ChiffreDAffaires,
                YearMaps({Null, Num(0), Num(-200), Num(900), Num(1100), Num(12000),
                          Unparsable},
                         {Null, Num(0), Num(1000)})>> >>)

EquityRows ==
    RowsOf(<< <<CapitauxPropres, YearMaps({Num(0), Num(400)}, {Num(300)})>>,
              <<CapitauxPropresAssimiles, YearMaps({Num(450)}, {})>>,
              <<DetteNette, YearMaps({Null, Num(250)}, {Num(200)})>> >>)

WorkingCapitalRows ==
    RowsOf(<< <<ActifCirculant, YearMaps({Num(800)}, {Num(700)})>>,
              <<PassifCirculant, YearMaps({Num(300)}, {Num(300)})>>,
              <<ActifCirculantTotal, YearMaps({Num(900)}, {})>> >>)

OperatingRows ==
    RowsOf(<< <<ResultatExploitation, YearMaps({Num(500)}, {Num(400)})>>,
              <<DotationsExploitation, YearMaps({Num(100)}, {Num(100)})>>,
              <<ReprisesExploitation, YearMaps({Num(50)}, {Num(50)})>> >>)

Snapshots == RevenueRows \cup EquityRows \cup WorkingCapitalRows \cup OperatingRows

\* computed_ratios: empty, or one flat entry
FlatRatios ==
    {Obj(<<>>)} \cup
    {Obj(<< <<flatKeyOf(k[1], k[2]), v>> >>) :
        k \in {<<ebitda, TokenN>>, <<chiffre_d_affaires, TokenN1>>},
        v \in {Null, Num(700)}}

ResolverInit ==
    /\ WizardInit
    /\ ListIdle
    /\ AuthIdle
    /\ extractedKPIs \in Snapshots
    /\ computedRatios \in FlatRatios
    /\ fiscalYears = Null
    /\ kpiCall = Null
    /\ cagrCell = Null
    /\ onload = "idle"
    /\ dom = Null
    /\ ratios = Null

ResolverNext ==
    \/ computeAndDisplayCAGR /\ UNCHANGED <<wizardVars, onload, dom, ratios, listVars, authVars>>
    \/ renderRow /\ UNCHANGED <<wizardVars, onload, dom, ratios, listVars, authVars>>

SpecResolver == ResolverInit /\ [][ResolverNext]_vars

----------------------------------------------------------------------------
(* Properties of the resolver and of the CAGR *)

ReportCall == kpiCall # Null /\ kpiCall.script = "report"

\* what the last call of the report script got for a year token
Resolved(year) == IF year = TokenN THEN kpiCall.current ELSE kpiCall.previous

YearTokens == {TokenN, TokenN1}

NoFlatEntry(kpiName, year) == Get(computedRatios, flatKeyOf(kpiName, year)) = Undefined

\* the raw fields a derived KPI is computed from
Dependents(kpiName) ==
    IF kpiName = ebitda
    THEN {ResultatExploitation, DotationsExploitation, ReprisesExploitation}
    ELSE {ActifCirculant, PassifCirculant}

\* the label has a value (not null) for the year label
HasValue(label, yearLabel) ==
    OptGet(Get(extractedKPIs, label), yearLabel) \notin {Undefined, Null}

\* C7: a derived KPI (ebitda, bfr) without a flat entry resolves to null when
\* none of its dependent raw fields has a value at the normalized year, and to
\* a number only when at least one dependent has a value.
C7_DerivedNullWithoutDependents ==
    (ReportCall /\ kpiCall.kpiName \in {ebitda, bfr}) =>
        \A year \in YearTokens :
            NoFlatEntry(kpiCall.kpiName, year) =>
                IF \E label \in Dependents(kpiCall.kpiName) :
                       HasValue(label, normalizedYearOf(year))
                THEN IsNum(Resolved(year))
                ELSE Resolved(year) = Null

\* the value of the first label, in label order, that contains the key with
\* spaces for underscores and whose year map contains the year
FirstLabelContaining(kpiName, yearLabel) ==
    LET pattern == replaceUnderscores(toLowerCase(kpiName))
        rows == extractedKPIs.e
        hits == {i \in 1..Len(rows) :
                    /\ includes(toLowerCase(rows[i][1]), pattern)
                    /\ HasOwn(rows[i][2], yearLabel)}
    IN  IF hits = {} THEN Null
        ELSE Get(rows[CHOOSE i \in hits : \A j \in hits : i <= j][2], yearLabel)

\* C8: when neither the flat lookup nor the nested lookup under the dbKey has
\* the requested year, the fuzzy fallback is still tried: the first label
\* whose year map contains the year supplies the result, and the result is
\* null only when there is no such label.
C8_FuzzyTriedAfterNestedMiss ==
    (ReportCall /\ kpiCall.kpiName \notin {ebitda, bfr}) =>
        \A year \in YearTokens :
            LET dbKey == Get(kpiNameMappings, kpiCall.kpiName)
                yearLabel == normalizedYearOf(year)
            IN  ( /\ NoFlatEntry(kpiCall.kpiName, year)
                  /\ dbKey # Undefined
                  /\ Get(extractedKPIs, dbKey.s) # Undefined
                  /\ ~HasOwn(Get(extractedKPIs, dbKey.s), yearLabel) )
                => Resolved(year) = FirstLabelContaining(kpiCall.kpiName, yearLabel)

\* C9: for a non-derived key without a flat entry, a number v stored under
\* the dbKey for the normalized year (0 and negative numbers included) is
\* returned as it is.
C9_NestedNumberReturned ==
    (ReportCall /\ kpiCall.kpiName \notin {ebitda, bfr}) =>
        \A year \in YearTokens :
            LET dbKey == Get(kpiNameMappings, kpiCall.kpiName)
                yearLabel == normalizedYearOf(year)
            IN  ( /\ NoFlatEntry(kpiCall.kpiName, year)
                  /\ dbKey # Undefined
                  /\ IsNum(OptGet(Get(extractedKPIs, dbKey.s), yearLabel)) )
                => Resolved(year) = Get(Get(extractedKPIs, dbKey.s), yearLabel)

\* the nearest integer to p / q, a tie away from zero
Rounded(p, q) ==
    LET a == Abs(p)
        b == Abs(q)
        m == (2 * a + b) \div (2 * b)
    IN  IF (p < 0) # (q < 0) /\ p # 0 THEN -m ELSE m

\* the cell for the growth from previous to current, both integers, previous # 0
GrowthCell(current, previous) ==
    [class |-> IF (current - previous) * previous >= 0
               THEN "change positive" ELSE "change negative",
     tenths |-> Rounded(1000 * (current - previous), previous)]

\* the values a CAGR call resolved are the resolver's values for n and n1
ResolvedByResolver ==
    IF kpiCall.script = "report"
    THEN /\ kpiCall.current = getKPIValue(kpiCall.kpiName, TokenN)
         /\ kpiCall.previous = getKPIValue(kpiCall.kpiName, TokenN1)
    ELSE \E i \in 1..Len(kpiList) :
            /\ kpiList[i].key = kpiCall.kpiName
            /\ kpiCall.current = pageGetKPIValue(kpiList[i], TokenN)
            /\ kpiCall.previous = pageGetKPIValue(kpiList[i], TokenN1)

\* C10: the CAGR cell shows ((current / previous) - 1) * 100 exactly when both
\* resolved values are numbers and the previous one is not 0, and the no-data
\* dash in every other case; 1100 over 1000 shows +10.0, 900 over 1000 shows
\* -10.0, and a previous value of 0 shows the dash.
C10_CagrExactOrNoData ==
    kpiCall # Null =>
        /\ ResolvedByResolver
        /\ IF IsNum(kpiCall.current) /\ IsNum(kpiCall.previous) /\ kpiCall.previous.n # 0
           THEN cagrCell = GrowthCell(kpiCall.current.n, kpiCall.previous.n)
           ELSE cagrCell = NoDataCell
        /\ (kpiCall.current = Num(1100) /\ kpiCall.previous = Num(1000))
               => cagrCell = [class |-> "change positive", tenths |-> 100]
        /\ (kpiCall.current = Num(900) /\ kpiCall.previous = Num(1000))
               => cagrCell = [class |-> "change negative", tenths |-> -100]
        /\ kpiCall.previous = Num(0) => cagrCell = NoDataCell

C10_Witness ==
    /\ kpiCall # Null
    /\ kpiCall.script = "report"
    /\ kpiCall.kpiName = chiffre_d_affaires
    /\ kpiCall.current = Num(1100)
    /\ kpiCall.previous = Num(1000)
    /\ cagrCell = [class |-> "change positive", tenths |-> 100]

\* C12: the resolver returns a number or null for every snapshot, key and
\* year token; an extracted value that is an unparsable string resolves to
\* null.
C12_ResolvedNumberOrNull ==
    ReportCall => \A year \in YearTokens : IsNum(Resolved(year)) \/ Resolved(year) = Null

\* the number a dependent raw field counts for: its value, 0 when it is missing
DependentOr0(label, yearLabel) ==
    LET v == OptGet(Get(extractedKPIs, label), yearLabel)
    IN  IF IsNum(v) THEN v.n ELSE 0

\* C18: without a flat entry, ebitda is resultat d'exploitation + dotations
\* - reprises and bfr is actif circulant - passif circulant at the requested
\* year, a missing dependent counted as 0 (500, 100, 50 gives 550; 800, 300
\* gives 500).
C18_DerivedFormulas ==
    (ReportCall /\ kpiCall.kpiName \in {ebitda, bfr}) =>
        \A year \in YearTokens :
            LET yearLabel == normalizedYearOf(year)
            IN  NoFlatEntry(kpiCall.kpiName, year) =>
                    Resolved(year) =
                        IF kpiCall.kpiName = ebitda
                        THEN Num(DependentOr0(ResultatExploitation, yearLabel)
                                 + DependentOr0(DotationsExploitation, yearLabel)
                                 - DependentOr0(ReprisesExploitation, yearLabel))
                        ELSE Num(DependentOr0(ActifCirculant, yearLabel)
                                 - DependentOr0(PassifCirculant, yearLabel))

C18_Witness ==
    /\ ReportCall
    /\ kpiCall.kpiName = ebitda
    /\ NoFlatEntry(ebitda, TokenN)
    /\ DependentOr0(ResultatExploitation, YearN) = 500
    /\ DependentOr0(DotationsExploitation, YearN) = 100
    /\ DependentOr0(ReprisesExploitation, YearN) = 50
    /\ kpiCall.current = Num(550)

----------------------------------------------------------------------------
(* The report script: year labels *)

Hyphen == <<"-">>

RECURSIVE split(_, _)
\* String.prototype.split(separator), for a separator of one character
split(s, separator) ==
    IF includes(s, separator)
    THEN LET i == CHOOSE j \in 1..Len(s) :
                      <<s[j]>> = separator /\ \A k \in 1..(j - 1) : <<s[k]>> # separator
         IN  <<SubSeq(s, 1, i - 1)>> \o split(SubSeq(s, i + 1, Len(s)), separator)
    ELSE <<s>>

\* array[index] of an array of strings, undefined past its end
ElementAt(array, index) ==
    IF index + 1 <= Len(array) THEN Str(array[index + 1]) ELSE Undefined

RECURSIVE NumberToString(_)
\* String(number) for an integer
NumberToString(number) ==
    IF number < 0 THEN Hyphen \o NumberToString(-number)
    ELSE IF number < 10 THEN <<Digits[number + 1]>>
    ELSE NumberToString(number \div 10) \o <<Digits[(number % 10) + 1]>>

\* parseInt(string): the value of the leading digits, NaN without one
parseInt(string) ==
    LET leading == {i \in 0..Len(string) :
                        \A k \in 1..i : string[k] \in SeqRange(Digits)}
        last == CHOOSE i \in leading : \A k \in leading : k <= i
    IN  IF last = 0 THEN NaN ELSE Num(DigitsValue(SubSeq(string, 1, last)))

\* fiscalYears.split('-')[1] || fiscalYears.split('-')[0] for a range, else fiscalYears
currentYear ==
    IF includes(fiscalYears.s, Hyphen)
    THEN Or(ElementAt(split(fiscalYears.s, Hyphen), 1),
            ElementAt(split(fiscalYears.s, Hyphen), 0)).s
    ELSE fiscalYears.s

\* fiscalYears.split('-')[0] for a range, else String(parseInt(fiscalYears) - 1)
previousYear ==
    IF includes(fiscalYears.s, Hyphen)
    THEN ElementAt(split(fiscalYears.s, Hyphen), 0).s
    ELSE IF parseInt(fiscalYears.s) = NaN THEN <<"N", "a", "N">>
         ELSE NumberToString(parseInt(fiscalYears.s).n - 1)

available_years == <<"a", "v", "a", "i", "l", "a", "b", "l", "e", "_", "y", "e", "a", "r", "s">>
_metadata == <<"_", "m", "e", "t", "a", "d", "a", "t", "a">>

\* the year labels of the columns, as strings
getAvailableYears ==
    IF Truthy(Get(computedRatios, _metadata))
       /\ Truthy(Get(Get(computedRatios, _metadata), available_years))
    THEN [i \in 1..Len(Get(Get(computedRatios, _metadata), available_years).a) |->
              Get(Get(computedRatios, _metadata), available_years).a[i].s]
    ELSE IF Truthy(Get(extractedKPIs, _metadata))
            /\ Truthy(Get(Get(extractedKPIs, _metadata), available_years))
    THEN [i \in 1..Len(Get(Get(extractedKPIs, _metadata), available_years).a) |->
              Get(Get(extractedKPIs, _metadata), available_years).a[i].s]
    ELSE IF Truthy(fiscalYears) THEN <<previousYear, currentYear>>
    ELSE <<YearN, YearN1>>

\* [...array].reverse()
reverse(array) == [i \in 1..Len(array) |-> array[Len(array) + 1 - i]]

\* mutant: N-1 labelled like N
displayYear_CurrentForBoth(year) ==
    IF Truthy(fiscalYears) /\ year \in {YearN, YearN1} THEN currentYear ELSE year

\* the label of a column of the table and of a chart
displayYear(year) ==
    IF Truthy(fiscalYears) /\ year = YearN THEN currentYear
    ELSE IF Truthy(fiscalYears) /\ year = YearN1 THEN previousYear
    ELSE year

\* year.toLowerCase().replace('-', '')
yearKeyOf(year) ==
    LET lower == toLowerCase(year)
    IN  IF includes(lower, Hyphen)
        THEN LET i == CHOOSE j \in 1..Len(lower) :
                          lower[j] = "-" /\ \A k \in 1..(j - 1) : lower[k] # "-"
             IN  SubSeq(lower, 1, i - 1) \o SubSeq(lower, i + 1, Len(lower))
        ELSE lower

\* the headers of the page that carry a year placeholder
PlaceholderHeaders ==
    << <<"N", " ", "(", "M", "A", "D", ")">>,
       <<"N", "-", "1", " ", "(", "M", "A", "D", ")">>,
       <<"C", "A", "G", "R", " ", "(", "N", ")">> >>

\* a header after the replacement of its placeholder
replacedHeader(header) ==
    IF header = PlaceholderHeaders[1] THEN currentYear
    ELSE IF header = PlaceholderHeaders[2] THEN previousYear
    ELSE IF header = PlaceholderHeaders[3]
    THEN <<"C", "A", "G", "R", " ", "(">> \o currentYear \o <<")">>
    ELSE header

----------------------------------------------------------------------------
(* The report script: the financial table, the header and the insights *)

\* parseFloat(num) for the values that occur: integers and strings
parseFloat(num) ==
    CASE num.t = "num" -> num
      [] num.t = "str" -> parseInt(num.s)
      [] OTHER -> NaN

NotAvailable == [text |-> "N/A"]

\* the amount in tenths of the unit, as toFixed(1) prints it
formatFinancialNumber(num) ==
    IF num \in {Null, Undefined} \/ parseFloat(num) = NaN THEN NotAvailable
    ELSE LET number == parseFloat(num).n
         IN  IF Abs(number) >= 1000000
             THEN [tenths |-> toFixed1(Quot(number, 1000000)), unit |-> "M MAD"]
             ELSE IF Abs(number) >= 1000
             THEN [tenths |-> toFixed1(Quot(number, 1000)), unit |-> "K MAD"]
             ELSE [tenths |-> toFixed1(Quot(number, 1)), unit |-> "MAD"]

\* the percentage in tenths, as toFixed(1) prints it
formatPercentage(num) ==
    CASE num.t = "quot" -> [tenths |-> toFixed1(num), unit |-> "%"]
      [] num.t = "num" -> [tenths |-> 10 * num.n, unit |-> "%"]
      [] OTHER -> NotAvailable

\* the header cells of the year columns and of the CAGR column
tableHeaders ==
    [i \in 1..Len(getAvailableYears) |->
        displayYear(reverse(getAvailableYears)[i]) \o <<" ", "(", "M", "A", "D", ")">>]
    \o << IF Truthy(fiscalYears)
          THEN <<"C", "A", "G", "R", " ", "(">> \o currentYear \o <<")">>
          ELSE <<"C", "A", "G", "R", " ", "(", "%", ")">> >>

\* the rows of the table: for each KPI the cells of the year columns
tableRows ==
    [k \in 1..Len(CagrKeys) |->
        [key |-> CagrKeys[k],
         cells |-> [i \in 1..Len(getAvailableYears) |->
                       formatFinancialNumber(
                           getKPIValue(CagrKeys[k],
                                       yearKeyOf(reverse(getAvailableYears)[i])))]]]

\* x > 0 for a value: false for a string that is not a number
Positive(x) == ToNumber(x) # NaN /\ ToNumber(x).n > 0

\* Math.abs(x) of a quotient
QuotAbs(x) == Quot(Abs(x.p), x.q)

\* the sentence about the growth of the revenue
cagrText(revenueN, revenueN1) ==
    IF Positive(revenueN) /\ Positive(revenueN1)
    THEN LET growthRate == QuotTimes(Divide(Minus(revenueN, revenueN1), revenueN1), 100)
         IN  IF Abs(growthRate.p) < growthRate.q THEN [text |-> "stabilité"]
             ELSE IF growthRate.p > 0
             THEN [text |-> "croissance de", tenths |-> toFixed1(QuotAbs(growthRate))]
             ELSE [text |-> "contraction de", tenths |-> toFixed1(QuotAbs(growthRate))]
    ELSE IF Positive(revenueN) /\ revenueN1 = Num(0)
    THEN [text |-> "croissance (données N-1 non disponibles)"]
    ELSE IF revenueN = Num(0) /\ Positive(revenueN1)
    THEN [text |-> "contraction (données N non disponibles)"]
    ELSE [text |-> "évolution à analyser (données insuffisantes)"]

\* the EBITDA margin and the word for the profitability
marginTexts(ebitdaN, revenueN, ebitdaN1, revenueN1) ==
    IF Positive(ebitdaN) /\ Positive(revenueN)
    THEN LET ebitdaMargin == QuotTimes(Divide(ebitdaN, revenueN), 100)
             \* twice the change of the margin, over den
             num == 200 * (ebitdaN.n * revenueN1.n - ebitdaN1.n * revenueN.n)
             den == revenueN.n * revenueN1.n
         IN  [margin |-> [tenths |-> toFixed1(ebitdaMargin), unit |-> "%"],
              profitability |->
                 IF Positive(ebitdaN1) /\ Positive(revenueN1)
                 THEN (IF Abs(num) < den THEN "stable"
                       ELSE IF num > den THEN "en progression"
                       ELSE "sous pression")
                 ELSE IF ebitdaMargin.p > 15 * ebitdaMargin.q THEN "solide"
                 ELSE IF ebitdaMargin.p > 8 * ebitdaMargin.q THEN "correcte"
                 ELSE IF ebitdaMargin.p > 0 THEN "modeste"
                 ELSE "déficitaire"]
    ELSE [margin |-> NotAvailable, profitability |-> "à évaluer"]

\* the text of financial-insights-text
insightsText ==
    LET revenueN == Or(getKPIValue(chiffre_d_affaires, TokenN), Num(0))
        revenueN1 == Or(getKPIValue(chiffre_d_affaires, TokenN1), Num(0))
        ebitdaN == Or(getKPIValue(ebitda, TokenN), Num(0))
        ebitdaN1 == Or(getKPIValue(ebitda, TokenN1), Num(0))
    IN  [cagrText |-> cagrText(revenueN, revenueN1),
         margin |-> marginTexts(ebitdaN, revenueN, ebitdaN1, revenueN1),
         revenue |-> IF Positive(revenueN) THEN formatFinancialNumber(revenueN)
                     ELSE Null]

----------------------------------------------------------------------------
(* The report script: the ratios and the metrics *)

\* mutant: the division without the test of the denominator
ratioOf_Unguarded(numerator, denominator) ==
    QuotTimes(Divide(numerator, denominator), 100)

\* denominator > 0 ? (numerator / denominator) * 100 : 0
ratioOf(numerator, denominator) ==
    IF Positive(denominator) THEN QuotTimes(Divide(numerator, denominator), 100)
    ELSE Num(0)

calculateMissingRatios ==
    LET chiffreAffaires == Or(getKPIValue(chiffre_d_affaires, TokenN), Num(0))
        resultatNet == Or(getKPIValue(resultat_net, TokenN), Num(0))
        resultatExploitation ==
            Or(getKPIValue(<<"r", "e", "s", "u", "l", "t", "a", "t", "_", "d", "_",
                  "e", "x", "p", "l", "o", "i", "t", "a", "t", "i", "o", "n">>, TokenN), Num(0))
        capitauxPropres == Or(getKPIValue(capitaux_propres, TokenN), Num(0))
        detteNette == Or(getKPIValue(dette_nette, TokenN), Num(0))
        ebitdaN == Or(calculateEBITDA(YearN), Num(0))
        actifCirculantTotalN ==
            Or(getKPIValue(<<"a", "c", "t", "i", "f", "_", "c", "i", "r", "c", "u",
                  "l", "a", "n", "t", "_", "t", "o", "t", "a", "l">>, TokenN), Num(0))
        actifCirculantTotalN1 ==
            Or(getKPIValue(<<"a", "c", "t", "i", "f", "_", "c", "i", "r", "c", "u",
                  "l", "a", "n", "t", "_", "t", "o", "t", "a", "l">>, TokenN1), Num(0))
        \* twice actifCirculantTotalMoyen
        total == Plus(actifCirculantTotalN, actifCirculantTotalN1)
    IN  [marge_ebitda |-> ratioOf(ebitdaN, chiffreAffaires),
         marge_exploitation |-> ratioOf(resultatExploitation, chiffreAffaires),
         marge_nette |-> ratioOf(resultatNet, chiffreAffaires),
         roe |-> ratioOf(resultatNet, capitauxPropres),
         roce |-> ratioOf(resultatExploitation, capitauxPropres),
         gearing |-> ratioOf(detteNette, capitauxPropres),
         rotation_actifs |->
            IF total.n <= 0 THEN Num(0)
            ELSE IF IsNum(chiffreAffaires)
            THEN Divide(Plus(chiffreAffaires, chiffreAffaires), total)
            ELSE NaN]

\* the quotient in hundredths, as toFixed(2) prints it
toFixed2(x) ==
    LET a == Abs(x.p)
        m == (200 * a + x.q) \div (2 * x.q)
    IN  IF x.p < 0 THEN -m ELSE m

\* mutant: the test without passifCirculant !== 0
liquidityText_ZeroPassif(actifCirculant, passifCirculant) ==
    IF actifCirculant # Null /\ passifCirculant # Null
    THEN LET ratioLiquidite == Divide(actifCirculant, passifCirculant)
         IN  IF ratioLiquidite.t = "quot" THEN [hundredths |-> toFixed2(ratioLiquidite)]
             ELSE [text |-> "NaN or Infinity"]
    ELSE NotAvailable

\* the text of ratio_liquidite_generale and of ratio_current
liquidityText(actifCirculant, passifCirculant) ==
    IF actifCirculant # Null /\ passifCirculant # Null /\ passifCirculant # Num(0)
    THEN LET ratioLiquidite == Divide(actifCirculant, passifCirculant)
         IN  IF ratioLiquidite.t = "quot" THEN [hundredths |-> toFixed2(ratioLiquidite)]
             ELSE [text |-> "NaN or Infinity"]
    ELSE NotAvailable

\* the text of ratio_debt_equity
capaciteText ==
    LET capaciteRemboursements ==
            getKPIValue(<<"c", "a", "p", "a", "c", "i", "t", "e", "_", "r", "e",
                  "m", "b", "o", "u", "r", "s", "e", "m", "e", "n", "t", "s">>, TokenN)
    IN  IF capaciteRemboursements # Null /\ IsNum(capaciteRemboursements)
        THEN [years |-> Abs(capaciteRemboursements.n)]
        ELSE IF capaciteRemboursements # Null THEN [text |-> "NaN années"]
        ELSE NotAvailable

\* the text of tresorerie-nette
tresorerieText ==
    LET direct == getKPIValue(tresorerie_nette, TokenN)
        tresorerieActif == getKPIValue(<<"t", "r", "e", "s", "o", "r", "e", "r", "i", "e", "_",
                  "a", "c", "t", "i", "f">>, TokenN)
        tresoreriePassif == getKPIValue(<<"t", "r", "e", "s", "o", "r", "e", "r", "i", "e", "_",
                  "p", "a", "s", "s", "i", "f">>, TokenN)
        tresorerieNette ==
            IF direct = Null /\ tresorerieActif # Null /\ tresoreriePassif # Null
            THEN Minus(tresorerieActif, tresoreriePassif)
            ELSE direct
    IN  IF tresorerieNette # Null THEN formatFinancialNumber(tresorerieNette)
        ELSE NotAvailable

\* the texts of the metric elements
metricTexts(r) ==
    [operatingmargin |-> formatPercentage(r.marge_exploitation),
     netmargin |-> formatPercentage(r.marge_nette),
     roe |-> formatPercentage(r.roe),
     roce |-> formatPercentage(r.roce),
     gearing |-> formatPercentage(r.gearing),
     gearin |-> formatPercentage(r.gearing),
     rotation_actifs |-> formatPercentage(r.rotation_actifs),
     ratio_debt_equity |-> capaciteText,
     ratio_liquidite_generale |->
        liquidityText(getKPIValue(<<"a", "c", "t", "i", "f", "_", "c", "i", "r", "c", "u",
                  "l", "a", "n", "t">>, TokenN),
                      getKPIValue(<<"p", "a", "s", "s", "i", "f", "_", "c", "i", "r", "c",
                  "u", "l", "a", "n", "t">>, TokenN)),
     tresorerie_nette |-> tresorerieText,
     ratio_current |->
        liquidityText(getKPIValue(<<"a", "c", "t", "i", "f", "_", "c", "i", "r", "c", "u",
                  "l", "a", "n", "t">>, TokenN),
                      getKPIValue(<<"p", "a", "s", "s", "i", "f", "_", "c", "i", "r", "c",
                  "u", "l", "a", "n", "t">>, TokenN))]

----------------------------------------------------------------------------
(* The report script: window.onload *)

\* the page before the script has run; the elements the script looks up exist
TemplateDom ==
    [thead |-> PlaceholderHeaders, tbody |-> <<>>, revenueHeader |-> Null,
     netMarginHeader |-> Null, insights |-> Null, metrics |-> Null,
     yearLabels |-> Null]

\* Object.keys(extractedKPIs).length === 0 && Object.keys(computedRatios).length === 0
NoFinancialData == Len(extractedKPIs.e) = 0 /\ Len(computedRatios.e) = 0

replaceYearPlaceholders ==
    /\ onload = "loaded"
    /\ onload' = "placeholders"
    /\ dom' = IF ~Truthy(fiscalYears) THEN dom
              ELSE [dom EXCEPT !.thead =
                        [i \in 1..Len(dom.thead) |-> replacedHeader(dom.thead[i])]]
    /\ UNCHANGED <<extractedKPIs, computedRatios, fiscalYears, kpiCall, cagrCell, ratios>>

populateFallbackData ==
    /\ onload = "placeholders"
    /\ NoFinancialData
    /\ onload' = "populated"
    /\ dom' = [dom EXCEPT
                 !.tbody = << [key |-> <<"t", "e", "s", "t">>,
                               cells |-> <<[text |-> "1000 MAD"], [text |-> "900 MAD"]>>,
                               cagr |-> [text |-> "+11.1%"]] >>,
                 !.revenueHeader = [text |-> "1000 MAD"],
                 !.netMarginHeader = [text |-> "10.0%"]]
    /\ UNCHANGED <<extractedKPIs, computedRatios, fiscalYears, kpiCall, cagrCell, ratios>>

\* generateFinancialTable, the header revenue and generateFinancialInsights
populateFinancialData ==
    /\ onload = "placeholders"
    /\ ~NoFinancialData
    /\ onload' = "financial"
    /\ dom' = [dom EXCEPT
                 !.thead = tableHeaders,
                 !.tbody = [k \in 1..Len(tableRows) |->
                               [key |-> tableRows[k].key, cells |-> tableRows[k].cells,
                                cagr |-> Null]],
                 !.revenueHeader =
                     formatFinancialNumber(getKPIValue(chiffre_d_affaires, TokenN)),
                 !.insights = insightsText]
    /\ UNCHANGED <<extractedKPIs, computedRatios, fiscalYears, kpiCall, cagrCell, ratios>>

populateKPIMetrics ==
    /\ onload = "financial"
    /\ onload' = "populated"
    /\ ratios' = calculateMissingRatios
    /\ dom' = [dom EXCEPT
                 !.metrics = metricTexts(calculateMissingRatios),
                 !.netMarginHeader = formatPercentage(calculateMissingRatios.marge_nette)]
    /\ UNCHANGED <<extractedKPIs, computedRatios, fiscalYears, kpiCall, cagrCell>>

\* the seven calls of window.onload, one after the other
onloadCAGR ==
    /\ onload = "populated"
    /\ computeAndDisplayCAGR
    /\ UNCHANGED <<onload, dom, ratios>>

generateFinancialInsights ==
    /\ onload = "populated"
    /\ CallsMade("report", CagrKeys) = Len(CagrKeys)
    /\ onload' = "insights"
    /\ dom' = [dom EXCEPT !.insights = insightsText]
    /\ UNCHANGED <<extractedKPIs, computedRatios, fiscalYears, kpiCall, cagrCell, ratios>>

\* the labels of the charts
initCharts ==
    /\ onload = "insights"
    /\ onload' = "charts"
    /\ dom' = [dom EXCEPT !.yearLabels =
                  [i \in 1..Len(getAvailableYears) |->
                      displayYear(reverse(getAvailableYears)[i])]]
    /\ UNCHANGED <<extractedKPIs, computedRatios, fiscalYears, kpiCall, cagrCell, ratios>>

----------------------------------------------------------------------------
(* The data the report is loaded with *)

\* revenue and the numerators and denominators of the margins and of the returns
RatioRows ==
    RowsOf(<< <<ChiffreDAffaires, YearMaps({Num(-200), Num(1100)}, {})>>,
              <<ResultatNet, {YearMap(Num(90), Undefined)}>>,
              <<ResultatExploitation, {YearMap(Num(500), Undefined)}>>,
              <<CapitauxPropres, YearMaps({Num(0), Num(-100), Num(400)}, {})>>,
              <<DetteNette, {YearMap(Num(250), Undefined)}>> >>)

\* revenue and the current assets and liabilities
LiquidityRows ==
    RowsOf(<< <<ChiffreDAffaires, {YearMap(Num(1100), Undefined)}>>,
              <<ActifCirculant, YearMaps({Null, Num(0), Num(800)}, {})>>,
              <<PassifCirculant, YearMaps({Null, Num(0), Num(300)}, {})>>,
              <<ActifCirculantTotal, YearMaps({Num(-900), Num(900)}, {})>> >>)

\* computed_ratios with the year labels of several documents
YearsMetadata ==
    Obj(<< <<_metadata,
             Obj(<< <<available_years,
                      Arr(<<Str(YearN), Str(YearN1), Str(<<"N", "-", "2">>)>>)>> >>)>> >>)

\* data.fiscal_years: none, a single year, a range
FiscalYears ==
    {Null, Str(<<"2", "0", "2", "3">>),
     Str(<<"2", "0", "2", "2", "-", "2", "0", "2", "3">>)}

ReportInit ==
    /\ WizardInit
    /\ ListIdle
    /\ AuthIdle
    /\ \/ /\ extractedKPIs \in RevenueRows
          /\ computedRatios \in FlatRatios
          /\ fiscalYears = Null
       \/ /\ extractedKPIs \in RatioRows \cup LiquidityRows
          /\ computedRatios \in
                {Obj(<<>>),
                 Obj(<< <<flatKeyOf(<<"p", "a", "s", "s", "i", "f", "_", "c", "i", "r", "c",
                                          "u", "l", "a", "n", "t">>, TokenN), Num(0)>> >>)}
          /\ fiscalYears = Null
       \/ /\ extractedKPIs \in RevenueRows
          /\ computedRatios \in {Obj(<<>>), YearsMetadata}
          /\ fiscalYears \in FiscalYears
    /\ kpiCall = Null
    /\ cagrCell = Null
    /\ onload = "loaded"
    /\ dom = TemplateDom
    /\ ratios = Null

ReportNext ==
    \/ replaceYearPlaceholders /\ UNCHANGED <<wizardVars, listVars, authVars>>
    \/ populateFallbackData /\ UNCHANGED <<wizardVars, listVars, authVars>>
    \/ populateFinancialData /\ UNCHANGED <<wizardVars, listVars, authVars>>
    \/ populateKPIMetrics /\ UNCHANGED <<wizardVars, listVars, authVars>>
    \/ onloadCAGR /\ UNCHANGED <<wizardVars, listVars, authVars>>
    \/ generateFinancialInsights /\ UNCHANGED <<wizardVars, listVars, authVars>>
    \/ initCharts /\ UNCHANGED <<wizardVars, listVars, authVars>>

SpecReport == ReportInit /\ [][ReportNext]_vars

----------------------------------------------------------------------------
(* Properties of the report *)

\* window.onload has populated the page
Populated == onload \in {"populated", "insights", "charts"}

\* a cell or a header without a figure
ShowsNoData(cell) == cell \in {Null, NotAvailable, NoDataCell}

\* C11: with extracted_kpis and computed_ratios both empty the report shows
\* every KPI value and every CAGR as no-data and displays no numeric figure.
C11_EmptyDataShowsNoFigure ==
    (NoFinancialData /\ Populated) =>
        /\ \A k \in 1..Len(dom.tbody) :
              /\ \A i \in 1..Len(dom.tbody[k].cells) : ShowsNoData(dom.tbody[k].cells[i])
              /\ ShowsNoData(dom.tbody[k].cagr)
        /\ ShowsNoData(dom.revenueHeader)
        /\ ShowsNoData(dom.netMarginHeader)
        /\ ReportCall => ShowsNoData(cagrCell)

\* the value the resolver returns for a key at year n, 0 for a falsy one
ResolvedOr0(kpiName, year) == Or(getKPIValue(kpiName, year), Num(0))

\* a ratio that is the number 0
IsZero(x) == x = Num(0) \/ (x.t = "quot" /\ x.p = 0)

\* two ratios that are the same number
SameNumber(x, y) ==
    LET a == IF x.t = "num" THEN Quot(x.n, 1) ELSE x
        b == IF y.t = "num" THEN Quot(y.n, 1) ELSE y
    IN  a.t = "quot" /\ b.t = "quot" /\ a.p * b.q = b.p * a.q

KeyActifCirculantTotal ==
    <<"a", "c", "t", "i", "f", "_", "c", "i", "r", "c", "u", "l", "a", "n",
      "t", "_", "t", "o", "t", "a", "l">>

\* C13: a ratio whose denominator is zero or negative is 0: capitaux propres
\* <= 0 gives roe = roce = gearing = 0, chiffre d'affaires <= 0 gives the three
\* margins = 0, an average actif circulant total <= 0 gives rotation_actifs = 0.
C13_RatioZeroWithoutPositiveDenominator ==
    ratios # Null =>
        /\ ~Positive(ResolvedOr0(capitaux_propres, TokenN)) =>
              IsZero(ratios.roe) /\ IsZero(ratios.roce) /\ IsZero(ratios.gearing)
        /\ ~Positive(ResolvedOr0(chiffre_d_affaires, TokenN)) =>
              /\ IsZero(ratios.marge_ebitda)
              /\ IsZero(ratios.marge_exploitation)
              /\ IsZero(ratios.marge_nette)
        /\ ResolvedOr0(KeyActifCirculantTotal, TokenN).n
             + ResolvedOr0(KeyActifCirculantTotal, TokenN1).n <= 0 =>
              IsZero(ratios.rotation_actifs)

C13_Witness ==
    /\ ratios # Null
    /\ getKPIValue(capitaux_propres, TokenN) = Num(-100)
    /\ getKPIValue(resultat_net, TokenN) = Num(90)
    /\ getKPIValue(chiffre_d_affaires, TokenN) = Num(1100)
    /\ ratios.roe = Num(0)
    /\ ratios.marge_nette = Quot(9000, 1100)

\* the operands of the liquidity ratio, as the resolver returns them
ActifCirculantN ==
    getKPIValue(<<"a", "c", "t", "i", "f", "_", "c", "i", "r", "c", "u",
                  "l", "a", "n", "t">>, TokenN)
PassifCirculantN ==
    getKPIValue(<<"p", "a", "s", "s", "i", "f", "_", "c", "i", "r", "c",
                  "u", "l", "a", "n", "t">>, TokenN)

\* C14, as stated: the liquidity ratio is N/A exactly when passif circulant is
\* null or 0, and is actif circulant / passif circulant otherwise.
C14_LiquidityNullIffNoPassif ==
    dom.metrics # Null =>
        \A text \in {dom.metrics.ratio_liquidite_generale, dom.metrics.ratio_current} :
            IF PassifCirculantN \in {Null, Num(0)} THEN text = NotAvailable
            ELSE text = [hundredths |->
                            Rounded(100 * ToNumber(ActifCirculantN).n, PassifCirculantN.n)]

\* C14, amended: the liquidity ratio is N/A when actif circulant is null or
\* passif circulant is null or 0, and is actif circulant / passif circulant to
\* two decimals otherwise; it is never 0 for a missing or zero denominator.
C14_LiquidityNullWithoutOperand ==
    dom.metrics # Null =>
        \A text \in {dom.metrics.ratio_liquidite_generale, dom.metrics.ratio_current} :
            IF ActifCirculantN = Null \/ PassifCirculantN \in {Null, Num(0)}
            THEN text = NotAvailable
            ELSE text = [hundredths |->
                            Rounded(100 * ActifCirculantN.n, PassifCirculantN.n)]

C14_Witness ==
    /\ dom.metrics # Null
    /\ ActifCirculantN = Num(800)
    /\ PassifCirculantN = Num(300)
    /\ dom.metrics.ratio_liquidite_generale = [hundredths |-> 267]

\* C15: the ebitda of marge_ebitda is the value the resolver returns for
\* ebitda at n, so a flat ebitda_n of computed_ratios is the value used.
C15_MargeEbitdaFromResolver ==
    ratios # Null =>
        SameNumber(ratios.marge_ebitda,
                   IF Positive(ResolvedOr0(chiffre_d_affaires, TokenN))
                   THEN QuotTimes(Divide(ResolvedOr0(ebitda, TokenN),
                                         ResolvedOr0(chiffre_d_affaires, TokenN)), 100)
                   ELSE Num(0))

\* C20: a label that does not contain the key (spaces for underscores) is
\* never the source of a value: when no label containing 'actif circulant
\* total' has a year, the actif circulant total of rotation_actifs is absent
\* and the ratio is 0.
C20_FuzzyOnlyLabelsContainingKey ==
    (/\ ratios # Null
     /\ FirstLabelContaining(KeyActifCirculantTotal, YearN) = Null
     /\ FirstLabelContaining(KeyActifCirculantTotal, YearN1) = Null) =>
        IsZero(ratios.rotation_actifs)

\* the table of populateFinancialData is on the page
TableGenerated == onload \in {"financial", "populated", "insights", "charts"} /\ ~NoFinancialData

\* the year labels of the columns, newest data last in the list
ColumnYears == reverse(getAvailableYears)

YearN2 == <<"N", "-", "2">>
SingleYear == Str(<<"2", "0", "2", "3">>)
YearRange == Str(<<"2", "0", "2", "2", "-", "2", "0", "2", "3">>)

\* the absolute year of a year label under the single-year spec 2023
AbsoluteYear(year) ==
    CASE year = YearN -> <<"2", "0", "2", "3">>
      [] year = YearN1 -> <<"2", "0", "2", "2">>
      [] year = YearN2 -> <<"2", "0", "2", "1">>
      [] OTHER -> year

\* the label of a year label under the range spec 2022-2023
RangeYear(year) ==
    CASE year = YearN -> <<"2", "0", "2", "3">>
      [] year = YearN1 -> <<"2", "0", "2", "2">>
      [] OTHER -> year

\* C16: under the single-year spec 2023 the column of every year token nk is
\* labelled 2023 - k, in the table headers and in the chart labels.
C16_SingleYearLabels ==
    fiscalYears = SingleYear =>
        /\ TableGenerated =>
              \A i \in 1..Len(ColumnYears) :
                  dom.thead[i] = AbsoluteYear(ColumnYears[i]) \o <<" ", "(", "M", "A", "D", ")">>
        /\ dom.yearLabels # Null =>
              \A i \in 1..Len(ColumnYears) :
                  dom.yearLabels[i] = AbsoluteYear(ColumnYears[i])

\* C17: under the range spec 2022-2023 n is labelled 2023 and n1 2022, a
\* token beyond n1 keeps its symbolic label, and without a fiscal spec every
\* token keeps its symbolic label; in the replaced placeholders, the table
\* headers and the chart labels.
C17_RangeAndSymbolicLabels ==
    /\ (fiscalYears = YearRange /\ onload = "placeholders") =>
          dom.thead = <<RangeYear(YearN), RangeYear(YearN1),
                        <<"C", "A", "G", "R", " ", "(">> \o RangeYear(YearN) \o <<")">> >>
    /\ (fiscalYears = Null /\ onload = "placeholders") => dom.thead = PlaceholderHeaders
    /\ (fiscalYears = YearRange /\ TableGenerated) =>
          \A i \in 1..Len(ColumnYears) :
              dom.thead[i] = RangeYear(ColumnYears[i]) \o <<" ", "(", "M", "A", "D", ")">>
    /\ (fiscalYears = Null /\ TableGenerated) =>
          \A i \in 1..Len(ColumnYears) :
              dom.thead[i] = ColumnYears[i] \o <<" ", "(", "M", "A", "D", ")">>
    /\ (fiscalYears = YearRange /\ dom.yearLabels # Null) =>
          \A i \in 1..Len(ColumnYears) : dom.yearLabels[i] = RangeYear(ColumnYears[i])
    /\ (fiscalYears = Null /\ dom.yearLabels # Null) =>
          \A i \in 1..Len(ColumnYears) : dom.yearLabels[i] = ColumnYears[i]

C17_Witness ==
    /\ fiscalYears = YearRange
    /\ ColumnYears = <<YearN2, YearN1, YearN>>
    /\ TableGenerated
    /\ dom.thead[1] = YearN2 \o <<" ", "(", "M", "A", "D", ")">>
    /\ dom.thead[2] = <<"2", "0", "2", "2">> \o <<" ", "(", "M", "A", "D", ")">>
    /\ dom.thead[3] = <<"2", "0", "2", "3">> \o <<" ", "(", "M", "A", "D", ")">>
    /\ dom.yearLabels # Null
    /\ dom.yearLabels = <<YearN2, <<"2", "0", "2", "2">>, <<"2", "0", "2", "3">> >>

\* C19: whenever the revenue CAGR is not null the message of the insights is
\* stability, growth of X% or contraction of X%; 'insufficient data' is the
\* message only when both periods are absent.
C19_NarrativeFollowsCagr ==
    dom.insights # Null =>
        /\ cagrComputable(getKPIValue(chiffre_d_affaires, TokenN),
                          getKPIValue(chiffre_d_affaires, TokenN1)) =>
              dom.insights.cagrText.text \in {"stabilité", "croissance de", "contraction de"}
        /\ dom.insights.cagrText.text = "évolution à analyser (données insuffisantes)" =>
              /\ getKPIValue(chiffre_d_affaires, TokenN) = Null
              /\ getKPIValue(chiffre_d_affaires, TokenN1) = Null

----------------------------------------------------------------------------
(* ProfilesList: fetching the list, the search debounce and the auto-refresh *)

\* the search terms typed into the search box
SearchTerms == {Str(<<>>), Str(<<"a", "c">>)}

\* the pages the server reports
MaxPages == 2

\* requests of fetchProfiles in flight at a time
MaxFetchCalls == 2

\* the lists GET /api/profiles returns, whatever the page and the search
\* term asked for: no profile, one profile that is completed or processing,
\* or a completed profile followed by a processing one
ServerProfiles ==
    {<<>>,
     <<[id |-> 1, status |-> "completed"]>>,
     <<[id |-> 1, status |-> "processing"]>>,
     <<[id |-> 1, status |-> "completed"], [id |-> 2, status |-> "processing"]>>}

\* response.data of GET /api/profiles
ListResponses == {[profiles |-> l, pages |-> n] : l \in ServerProfiles, n \in 1..MaxPages}

\* profiles.some(profile => profile.status === 'processing')
hasProcessingProfiles == \E i \in 1..Len(profiles) : profiles[i].status = "processing"

\* the dependencies of the effects in the current render; fetchProfiles is
\* a new function whenever currentPage or debouncedSearchTerm changes
renderDeps ==
    [searchTerm |-> searchTerm,
     fetchProfiles |-> <<currentPage, debouncedSearchTerm>>,
     hasProcessingProfiles |-> hasProcessingProfiles,
     isAutoRefreshEnabled |-> isAutoRefreshEnabled]

\* a render has been committed whose effects have not run yet
EffectsPending == listMounted /\ effectDeps # renderDeps

depChanged(name) == effectDeps = Null \/ effectDeps[name] # renderDeps[name]

\* the request of fetchProfiles joins the requests in flight, in the order
\* of issue; no response has overtaken it yet
fetchProfiles(calls) == Append(calls, [superseded |-> FALSE])

clearInterval(timers, ref) == {timer \in timers : Num(timer.id) # ref}

\* setInterval: the new timer gets the first id that is free
setInterval(timers, page, search) ==
    LET id == CHOOSE n \in 1..(Cardinality(timers) + 1) :
                  /\ \A timer \in timers : timer.id # n
                  /\ \A m \in 1..(n - 1) : \E timer \in timers : timer.id = m
    IN  [id |-> id, page |-> page, search |-> search]

\* mutant: the interval effect returns no cleanup
intervalCleanup_Missing == [intervals |-> intervals, ref |-> refreshIntervalRef]

\* the cleanup the interval effect returned when it last ran with
\* isAutoRefreshEnabled true
intervalCleanup ==
    IF effectDeps # Null /\ effectDeps.isAutoRefreshEnabled /\ refreshIntervalRef # Null
    THEN [intervals |-> clearInterval(intervals, refreshIntervalRef), ref |-> Null]
    ELSE [intervals |-> intervals, ref |-> refreshIntervalRef]

\* the effect with the dependencies [isAutoRefreshEnabled, fetchProfiles]:
\* its last cleanup, then its body
intervalEffect ==
    IF ~(depChanged("isAutoRefreshEnabled") \/ depChanged("fetchProfiles"))
    THEN [intervals |-> intervals, ref |-> refreshIntervalRef]
    ELSE IF isAutoRefreshEnabled
    THEN LET timer == setInterval(intervalCleanup.intervals, currentPage,
                                  debouncedSearchTerm)
         IN  [intervals |-> intervalCleanup.intervals \cup {timer}, ref |-> Num(timer.id)]
    ELSE IF intervalCleanup.ref # Null
    THEN [intervals |-> clearInterval(intervalCleanup.intervals, intervalCleanup.ref),
          ref |-> Null]
    ELSE intervalCleanup

\* the effect with the dependencies [hasProcessingProfiles, isAutoRefreshEnabled]
autoRefreshEffect ==
    IF ~(depChanged("hasProcessingProfiles") \/ depChanged("isAutoRefreshEnabled"))
    THEN isAutoRefreshEnabled
    ELSE IF hasProcessingProfiles /\ ~isAutoRefreshEnabled THEN TRUE
    ELSE IF ~hasProcessingProfiles /\ isAutoRefreshEnabled THEN FALSE
    ELSE isAutoRefreshEnabled

\* the effects of a committed render, in the order of the component: the
\* search debounce, the fetch, the auto-refresh switch and the interval
flushEffects ==
    /\ EffectsPending
    /\ debounceTimer' = IF depChanged("searchTerm") THEN searchTerm ELSE debounceTimer
    /\ IF depChanged("fetchProfiles")
       THEN /\ listLoading' = TRUE
            /\ fetchCalls' = fetchProfiles(fetchCalls)
       ELSE UNCHANGED <<listLoading, fetchCalls>>
    /\ isAutoRefreshEnabled' = autoRefreshEffect
    /\ intervals' = intervalEffect.intervals
    /\ refreshIntervalRef' = intervalEffect.ref
    /\ effectDeps' = renderDeps
    /\ UNCHANGED <<listMounted, profiles, searchTerm, debouncedSearchTerm, currentPage,
                   totalPages, reprocessLoading, reprocessCalls, shownSuperseded>>

\* React runs the pending effects before it handles an event that sets state
ListReady == listMounted /\ ~EffectsPending

\* another request of fetchProfiles can be followed
FreeFetchSlot == Len(fetchCalls) < MaxFetchCalls

\* the table, with its buttons, is rendered
TableShown == ~listLoading /\ Len(profiles) > 0

handleSearch ==
    /\ ListReady /\ FreeFetchSlot
    /\ \E newSearchTerm \in SearchTerms \ {searchTerm} : searchTerm' = newSearchTerm
    /\ currentPage' = 1
    /\ UNCHANGED <<listMounted, profiles, listLoading, debouncedSearchTerm, totalPages,
                   reprocessLoading, isAutoRefreshEnabled, refreshIntervalRef,
                   debounceTimer, intervals, fetchCalls, reprocessCalls, effectDeps,
                   shownSuperseded>>

\* the timer of the debounce effect fires, 300 ms after the last keystroke
debounceFires ==
    /\ ListReady /\ FreeFetchSlot
    /\ debounceTimer # Null
    /\ debouncedSearchTerm' = debounceTimer
    /\ debounceTimer' = Null
    /\ UNCHANGED <<listMounted, profiles, listLoading, searchTerm, currentPage, totalPages,
                   reprocessLoading, isAutoRefreshEnabled, refreshIntervalRef, intervals,
                   fetchCalls, reprocessCalls, effectDeps, shownSuperseded>>

\* the buttons of the pagination: previous, a page number, next
setCurrentPage ==
    /\ ListReady /\ FreeFetchSlot
    /\ TableShown /\ totalPages > 1
    /\ \E page \in {Max(1, currentPage - 1), Min(totalPages, currentPage + 1)}
                   \cup 1..Min(5, totalPages) :
          /\ page # currentPage
          /\ currentPage' = page
    /\ UNCHANGED <<listMounted, profiles, listLoading, searchTerm, debouncedSearchTerm,
                   totalPages, reprocessLoading, isAutoRefreshEnabled, refreshIntervalRef,
                   debounceTimer, intervals, fetchCalls, reprocessCalls, effectDeps,
                   shownSuperseded>>

\* a refresh interval fires: fetchProfiles(true) of the render that set it,
\* which leaves the loading state alone
refreshTick ==
    /\ listMounted
    /\ Len(fetchCalls) + (IF depChanged("fetchProfiles") THEN 1 ELSE 0) < MaxFetchCalls
    /\ intervals # {}
    /\ fetchCalls' = fetchProfiles(fetchCalls)
    /\ UNCHANGED <<listMounted, profiles, listLoading, searchTerm, debouncedSearchTerm,
                   currentPage, totalPages, reprocessLoading, isAutoRefreshEnabled,
                   refreshIntervalRef, debounceTimer, intervals, reprocessCalls,
                   effectDeps, shownSuperseded>>

\* the requests issued before request i have been overtaken by its response
overtaken(calls, i) ==
    [j \in 1..Len(calls) |-> IF j < i THEN [calls[j] EXCEPT !.superseded = TRUE]
                             ELSE calls[j]]

\* axios.get('/api/profiles') resolves with response.data = data
fetchResolved ==
    /\ ListReady
    /\ \E i \in 1..Len(fetchCalls) : \E data \in ListResponses :
          /\ profiles' = data.profiles
          /\ totalPages' = data.pages
          /\ shownSuperseded' = fetchCalls[i].superseded
          /\ fetchCalls' = RemoveAt(overtaken(fetchCalls, i), i)
    /\ listLoading' = FALSE
    /\ UNCHANGED <<listMounted, searchTerm, debouncedSearchTerm, currentPage,
                   reprocessLoading, isAutoRefreshEnabled, refreshIntervalRef,
                   debounceTimer, intervals, reprocessCalls, effectDeps>>

\* axios.get('/api/profiles') rejects: a toast, and the list stays
fetchRejected ==
    /\ ListReady
    /\ \E i \in 1..Len(fetchCalls) : fetchCalls' = RemoveAt(fetchCalls, i)
    /\ listLoading' = FALSE
    /\ UNCHANGED <<listMounted, profiles, searchTerm, debouncedSearchTerm, currentPage,
                   totalPages, reprocessLoading, isAutoRefreshEnabled, refreshIntervalRef,
                   debounceTimer, intervals, reprocessCalls, effectDeps, shownSuperseded>>

\* the synchronous part of reprocessProfile; the button of a profile is
\* enabled when the profile is completed and is not being reprocessed
reprocessProfile ==
    /\ ListReady /\ TableShown
    /\ \E i \in 1..Len(profiles) :
          /\ profiles[i].status = "completed"
          /\ reprocessLoading # Num(profiles[i].id)
          /\ profiles[i].id \notin reprocessCalls
          /\ reprocessLoading' = Num(profiles[i].id)
          /\ reprocessCalls' = reprocessCalls \cup {profiles[i].id}
    /\ UNCHANGED <<listMounted, profiles, listLoading, searchTerm, debouncedSearchTerm,
                   currentPage, totalPages, isAutoRefreshEnabled, refreshIntervalRef,
                   debounceTimer, intervals, fetchCalls, effectDeps, shownSuperseded>>

\* setProfiles(prev => prev.map(p => p.id === profileId ? {...p, status: 'processing'} : p))
markProcessing(prev, profileId) ==
    [i \in 1..Len(prev) |-> IF prev[i].id = profileId
                            THEN [prev[i] EXCEPT !.status = "processing"]
                            ELSE prev[i]]

\* POST /api/profiles/:id/reprocess resolves: the optimistic update
reprocessResolved ==
    /\ ListReady
    /\ \E profileId \in reprocessCalls :
          /\ profiles' = markProcessing(profiles, profileId)
          /\ reprocessCalls' = reprocessCalls \ {profileId}
    /\ reprocessLoading' = Null
    /\ UNCHANGED <<listMounted, listLoading, searchTerm, debouncedSearchTerm, currentPage,
                   totalPages, isAutoRefreshEnabled, refreshIntervalRef, debounceTimer,
                   intervals, fetchCalls, effectDeps, shownSuperseded>>

\* POST /api/profiles/:id/reprocess rejects: a toast
reprocessRejected ==
    /\ ListReady
    /\ \E profileId \in reprocessCalls : reprocessCalls' = reprocessCalls \ {profileId}
    /\ reprocessLoading' = Null
    /\ UNCHANGED <<listMounted, profiles, listLoading, searchTerm, debouncedSearchTerm,
                   currentPage, totalPages, isAutoRefreshEnabled, refreshIntervalRef,
                   debounceTimer, intervals, fetchCalls, effectDeps, shownSuperseded>>

\* the component leaves the page: the cleanups of the effects run, and the
\* responses still to come set the state of no component
listUnmount ==
    /\ ListReady
    /\ listMounted' = FALSE
    /\ debounceTimer' = Null
    /\ intervals' = IF refreshIntervalRef # Null
                    THEN clearInterval(intervalCleanup.intervals, refreshIntervalRef)
                    ELSE intervalCleanup.intervals
    /\ refreshIntervalRef' = intervalCleanup.ref
    /\ fetchCalls' = <<>>
    /\ reprocessCalls' = {}
    /\ UNCHANGED <<profiles, listLoading, searchTerm, debouncedSearchTerm, currentPage,
                   totalPages, reprocessLoading, isAutoRefreshEnabled, effectDeps,
                   shownSuperseded>>

\* the list has been rendered for the first time, its effects are to run
ListInit ==
    /\ WizardInit
    /\ ReportIdle
    /\ AuthIdle
    /\ listMounted = TRUE
    /\ profiles = <<>>
    /\ listLoading = TRUE
    /\ searchTerm = Str(<<>>)
    /\ debouncedSearchTerm = Str(<<>>)
    /\ currentPage = 1
    /\ totalPages = 1
    /\ reprocessLoading = False
    /\ isAutoRefreshEnabled = FALSE
    /\ refreshIntervalRef = Null
    /\ debounceTimer = Null
    /\ intervals = {}
    /\ fetchCalls = <<>>
    /\ reprocessCalls = {}
    /\ effectDeps = Null
    /\ shownSuperseded = FALSE

ListNext ==
    \/ flushEffects /\ UNCHANGED <<wizardVars, reportVars, authVars>>
    \/ handleSearch /\ UNCHANGED <<wizardVars, reportVars, authVars>>
    \/ debounceFires /\ UNCHANGED <<wizardVars, reportVars, authVars>>
    \/ setCurrentPage /\ UNCHANGED <<wizardVars, reportVars, authVars>>
    \/ refreshTick /\ UNCHANGED <<wizardVars, reportVars, authVars>>
    \/ fetchResolved /\ UNCHANGED <<wizardVars, reportVars, authVars>>
    \/ fetchRejected /\ UNCHANGED <<wizardVars, reportVars, authVars>>
    \/ reprocessProfile /\ UNCHANGED <<wizardVars, reportVars, authVars>>
    \/ reprocessResolved /\ UNCHANGED <<wizardVars, reportVars, authVars>>
    \/ reprocessRejected /\ UNCHANGED <<wizardVars, reportVars, authVars>>
    \/ listUnmount /\ UNCHANGED <<wizardVars, reportVars, authVars>>

SpecList == ListInit /\ [][ListNext]_vars

\* React's scheduler runs the effects of every committed render
SpecListLive ==
    ListInit /\ [][ListNext]_vars
    /\ WF_vars(flushEffects /\ UNCHANGED <<wizardVars, reportVars, authVars>>)

----------------------------------------------------------------------------
(* AuthProvider: the session kept in React state, axios and localStorage *)

\* login requests in flight at a time
MaxLoginCalls == 2

KeyName == <<"n", "a", "m", "e">>

\* the names the login form is submitted for
Credentials == {<<"A", "n", "a">>, <<"B", "o">>}

\* what POST /api/auth/login answers to credentials it accepts: a token and
\* the user of the credentials
AccessTokens == {Str(<<"t", "1">>), Str(<<"t", "2">>)}
LoginResponses(credentials) ==
    {[access_token |-> t, user |-> Obj(<< <<KeyName, Str(credentials)>> >>)] :
        t \in AccessTokens}

\* the errors axios.post rejects with: no response at all, a response with
\* an error message, a response without one
LoginErrors ==
    {[response |-> Undefined],
     [response |-> [data |-> [error |-> Str(<<"I", "n", "v", "a", "l", "i", "d">>)]]],
     [response |-> [data |-> [error |-> Undefined]]]}

LoginFailed == Str(<<"L", "o", "g", "i", "n", " ", "f", "a", "i", "l", "e", "d">>)

UserTextPrefix == <<"{", "\"", "n", "a", "m", "e", "\"", ":", "\"">>
UserTextSuffix == <<"\"", "}">>

\* JSON.stringify of a user object {name}
JSONstringify(userData) ==
    Str(UserTextPrefix \o Get(userData, KeyName).s \o UserTextSuffix)

\* JSON.parse: the user object of a text, null for the text null, a thrown
\* SyntaxError for any other text
JSONparse(text) ==
    LET n == Len(text.s) - Len(UserTextPrefix) - Len(UserTextSuffix)
    IN  IF /\ n >= 0
           /\ SubSeq(text.s, 1, Len(UserTextPrefix)) = UserTextPrefix
           /\ SubSeq(text.s, Len(text.s) - Len(UserTextSuffix) + 1, Len(text.s))
                  = UserTextSuffix
           /\ \A i \in 1..n : text.s[Len(UserTextPrefix) + i] # "\""
        THEN [threw |-> FALSE,
              value |-> Obj(<< <<KeyName,
                                 Str(SubSeq(text.s, Len(UserTextPrefix) + 1,
                                            Len(UserTextPrefix) + n))>> >>)]
        ELSE IF text.s = <<"n", "u", "l", "l">> THEN [threw |-> FALSE, value |-> Null]
        ELSE [threw |-> TRUE, value |-> Undefined]

\* `Bearer ${token}`
Bearer(accessToken) == Str(<<"B", "e", "a", "r", "e", "r", " ">> \o accessToken.s)

\* the effect of the first render: the stored session is taken over
authMountEffect ==
    /\ authHandler = "render"
    /\ IF Truthy(localStorage.token) /\ Truthy(localStorage.user)
       THEN IF JSONparse(localStorage.user).threw
            THEN /\ localStorage' = [token |-> Null, user |-> Null]
                 /\ UNCHANGED <<user, token, authorization>>
            ELSE /\ user' = JSONparse(localStorage.user).value
                 /\ token' = localStorage.token
                 /\ authorization' = Bearer(localStorage.token)
                 /\ UNCHANGED localStorage
       ELSE UNCHANGED <<user, token, authorization, localStorage>>
    /\ authLoading' = FALSE
    /\ authHandler' = "mount"
    /\ UNCHANGED <<loginCalls, loginResult>>

\* the part of login up to the await of axios.post
login ==
    /\ authHandler # "render"
    /\ Len(loginCalls) < MaxLoginCalls
    /\ \E credentials \in Credentials : loginCalls' = Append(loginCalls, credentials)
    /\ authHandler' = "login"
    /\ UNCHANGED <<user, token, authLoading, authorization, localStorage, loginResult>>

\* axios.post('/api/auth/login') resolves with response.data = data
loginResolved ==
    /\ \E i \in 1..Len(loginCalls) : \E data \in LoginResponses(loginCalls[i]) :
          /\ loginCalls' = RemoveAt(loginCalls, i)
          /\ localStorage' = [token |-> data.access_token,
                              user |-> JSONstringify(data.user)]
          /\ authorization' = Bearer(data.access_token)
          /\ user' = data.user
          /\ token' = data.access_token
    /\ loginResult' = [success |-> TRUE, error |-> Undefined]
    /\ authHandler' = "login.resolved"
    /\ UNCHANGED authLoading

\* error.response?.data?.error || 'Login failed'
errorMessage(error) ==
    Or(IF error.response = Undefined THEN Undefined ELSE error.response.data.error,
       LoginFailed)

\* axios.post('/api/auth/login') rejects: the catch of login
loginRejected ==
    /\ \E i \in 1..Len(loginCalls) : loginCalls' = RemoveAt(loginCalls, i)
    /\ \E error \in LoginErrors :
          loginResult' = [success |-> FALSE, error |-> errorMessage(error)]
    /\ authHandler' = "login.catch"
    /\ UNCHANGED <<user, token, authLoading, authorization, localStorage>>

\* mutant: logout leaves the default header in place
deleteAuthorization_Skipped == authorization

\* delete axios.defaults.headers.common['Authorization']
deleteAuthorization == Undefined

logout ==
    /\ authHandler # "render"
    /\ localStorage' = [token |-> Null, user |-> Null]
    /\ authorization' = deleteAuthorization
    /\ user' = Null
    /\ token' = Null
    /\ authHandler' = "logout"
    /\ UNCHANGED <<authLoading, loginCalls, loginResult>>

\* the page is loaded again: the state of React and of axios starts anew,
\* localStorage stays, and the responses of the old page are not awaited
authReload ==
    /\ authHandler # "render"
    /\ user' = Null
    /\ token' = Null
    /\ authLoading' = TRUE
    /\ authorization' = Undefined
    /\ loginCalls' = <<>>
    /\ loginResult' = Undefined
    /\ authHandler' = "render"
    /\ UNCHANGED localStorage

\* the first render of AuthProvider on a browser that stores nothing yet
AuthInit ==
    /\ WizardInit
    /\ ReportIdle
    /\ ListIdle
    /\ user = Null
    /\ token = Null
    /\ authLoading = TRUE
    /\ authorization = Undefined
    /\ localStorage = [token |-> Null, user |-> Null]
    /\ loginCalls = <<>>
    /\ loginResult = Undefined
    /\ authHandler = "render"

AuthNext ==
    \/ authMountEffect /\ UNCHANGED <<wizardVars, reportVars, listVars>>
    \/ login /\ UNCHANGED <<wizardVars, reportVars, listVars>>
    \/ loginResolved /\ UNCHANGED <<wizardVars, reportVars, listVars>>
    \/ loginRejected /\ UNCHANGED <<wizardVars, reportVars, listVars>>
    \/ logout /\ UNCHANGED <<wizardVars, reportVars, listVars>>
    \/ authReload /\ UNCHANGED <<wizardVars, reportVars, listVars>>

SpecAuth == AuthInit /\ [][AuthNext]_vars

----------------------------------------------------------------------------
(* Properties of the wizard: creation, verification rounds and files *)

\* C21: one run of the wizard creates at most one profile: POST /api/profiles
\* succeeds at most once between mount and unmount.
C21_AtMostOneProfile == profilesCreated <= 1

\* C22: after a verification round that completed successfully, existingProfile
\* is set exactly when the response of that round reported an existing profile.
C22_ExistingProfileFromLastRound ==
    lastHandler = "verifyProfile.verified" =>
        ((existingProfile # Null) <=> Truthy(verificationResult.existing_profile))

\* C26: the selected files, in FileUpload and in the wizard, are never more
\* than maxFiles and never larger than maxSize, and every verification request
\* is sent with between 1 and 3 files.
C26_FileLimits ==
    /\ Len(files) <= maxFiles
    /\ Len(uploadedFiles) <= maxFiles
    /\ \A i \in 1..Len(files) : files[i].size <= maxSize
    /\ \A i \in 1..Len(uploadedFiles) : uploadedFiles[i].size <= maxSize
    /\ \A i \in 1..Len(verifyCalls) :
          /\ Len(verifyCalls[i].uploadedFiles) >= 1
          /\ Len(verifyCalls[i].uploadedFiles) <= 3

\* a verification request in flight with the list filled up to the limit
C26_Witness ==
    /\ lastHandler = "nextStep.verify"
    /\ Len(verifyCalls) = 1
    /\ Len(verifyCalls[1].uploadedFiles) = maxFiles
    /\ Len(files) = maxFiles

\* C27: whenever FileUpload is on the page, the files it holds and lists as
\* selected are the wizard's uploadedFiles, the files sent for verification
\* and upload.
C27_ShownFilesAreUploadedFiles ==
    FileUploadShown(currentStep, loading) => uploadedFiles = files

----------------------------------------------------------------------------
(* Properties of the financial table: cells and order of the year columns *)

\* the header of the column of the current and of the previous period
CurrentPeriodHeader ==
    (IF Truthy(fiscalYears) THEN currentYear ELSE YearN) \o <<" ", "(", "M", "A", "D", ")">>

PreviousPeriodHeader ==
    (IF Truthy(fiscalYears) THEN previousYear ELSE YearN1) \o <<" ", "(", "M", "A", "D", ")">>

\* C23: in every KPI row of the table the cell under the current period shows
\* the value resolved for n and the cell under the previous period the value
\* resolved for n1, whichever source the year list was taken from.
C23_CellsShowResolvedPeriods ==
    TableGenerated =>
        \A k \in 1..Len(dom.tbody) : \A i \in 1..Len(ColumnYears) :
            /\ dom.thead[i] = CurrentPeriodHeader =>
                  dom.tbody[k].cells[i] =
                      formatFinancialNumber(getKPIValue(dom.tbody[k].key, TokenN))
            /\ dom.thead[i] = PreviousPeriodHeader =>
                  dom.tbody[k].cells[i] =
                      formatFinancialNumber(getKPIValue(dom.tbody[k].key, TokenN1))

\* C24: the year columns of the table are shown newest first: the first year
\* column is the column of the most recent period, for every source of the
\* year list.
C24_NewestColumnFirst ==
    TableGenerated => dom.thead[1] = CurrentPeriodHeader

----------------------------------------------------------------------------
(* The two resolvers side by side *)

PageCall == kpiCall # Null /\ kpiCall.script = "page"

\* C25: for every KPI of the diagnostic table and both year tokens the
\* getKPIValue of the result page returns what the getKPIValue of the report
\* script returns on the same snapshot.
C25_ResolversAgree ==
    PageCall =>
        /\ kpiCall.current = getKPIValue(kpiCall.kpiName, TokenN)
        /\ kpiCall.previous = getKPIValue(kpiCall.kpiName, TokenN1)

----------------------------------------------------------------------------
(* Properties of the profile list: overlapping fetches and the polling *)

\* C28: the list shown comes from the most recently issued fetch: a response
\* is never applied after the response of a request issued later.
C28_NewestFetchShown == ~shownSuperseded

\* the interval the ref points to fetches with the parameters of the page
CurrentInterval(timer) ==
    /\ refreshIntervalRef = Num(timer.id)
    /\ timer.page = currentPage
    /\ timer.search = debouncedSearchTerm

\* C29: polling runs exactly while a listed profile is processing: once the
\* effects of a render have run, a refresh interval is active if and only if
\* a profile has the status 'processing'; it is started after such a profile
\* appears and stopped after none remains; at most one interval is ever
\* active, and none after the component has left the page.
C29_PollingWhileProcessing ==
    /\ [](Cardinality(intervals) <= 1)
    /\ [](~listMounted => intervals = {})
    /\ [](ListReady => /\ (intervals # {} <=> hasProcessingProfiles)
                       /\ \A timer \in intervals : CurrentInterval(timer))
    /\ (listMounted /\ hasProcessingProfiles) ~> (intervals # {} \/ ~listMounted)
    /\ (listMounted /\ ~hasProcessingProfiles) ~> (intervals = {})

\* polling on the second page, restarted there after the page was changed
C29_Witness ==
    /\ ListReady
    /\ hasProcessingProfiles
    /\ currentPage = 2
    /\ \E timer \in intervals : CurrentInterval(timer)

----------------------------------------------------------------------------
(* Properties of the session *)

\* user, token and the default Authorization header are set together, and
\* then localStorage holds both items
AuthConsistent ==
    /\ (user # Null) <=> (token # Null)
    /\ (token # Null) <=> (authorization # Undefined)
    /\ user # Null => (localStorage.token # Null /\ localStorage.user # Null)

\* after logout nothing of the session is left
LogoutClears ==
    authHandler = "logout" =>
        /\ user = Null /\ token = Null /\ authorization = Undefined
        /\ localStorage = [token |-> Null, user |-> Null]

\* a login that fails returns {success: false, error} and changes nothing
FailedLoginChangesNothing ==
    authHandler' = "login.catch" =>
        /\ UNCHANGED <<user, token, authorization, localStorage>>
        /\ loginResult'.success = FALSE
        /\ Truthy(loginResult'.error)

====
